---- MODULE Spec2Model ----
(***************************************************************************)
(* Model of the gi layout engine (package gi, layout.go): LayoutData size  *)
(* negotiation, the measure pass (Size2D / GatherSizes), the arrange pass  *)
(* (Layout2D: LayoutAll, LayoutSingle, FinalizeLayout, ManageOverflow) and *)
(* the scrollbars a Layout manages.                                        *)
(*                                                                         *)
(* Numbers.  The code computes in float64 "dots".  A length is modelled as *)
(* an integer count of 1/Scale dots, Scale being a common multiple of      *)
(* every divisor LayoutAll can use, so the proportional shares             *)
(* extra * (pref / stretchTot) are exact rationals.  The IEEE value NaN    *)
(* (0/0 in LayoutAll) is the reserved value NaN; the F* operators give the *)
(* IEEE behaviour of +, > and math.Max on it.  Rounding is not modelled.   *)
(***************************************************************************)
EXTENDS Integers, Sequences, FiniteSets, TLC

\* ---------------------------------------------------------------- bounds
MaxKids == 2
MaxDim == 2
MaxAvail == 4
MaxValue == 1
MaxDepth == 3
MaxGridKids == 4
MaxLetters == 3
MaxCons == 3

RECURSIVE GCD(_, _)
GCD(a, b) == IF b = 0 THEN a ELSE GCD(b, a % b)

RECURSIVE LCMUpTo(_)
LCMUpTo(n) == IF n <= 1 THEN 1 ELSE LET m == LCMUpTo(n - 1) IN (m * n) \div GCD(m, n)

\* one dot, in model units: a multiple of 10 (the code's 0.1 threshold) and of
\* every sum of stretching Prefs and every count of gaps LayoutAll divides by
Scale == 10 * LCMUpTo(MaxKids * MaxDim)

Dots(n) == n * Scale

\* ------------------------------------------------------------- float64
NaN == 0 - (2 ^ 30)

IsNaN(a) == a = NaN

FAdd(a, b) == IF IsNaN(a) \/ IsNaN(b) THEN NaN ELSE a + b

FGt(a, b) == ~IsNaN(a) /\ ~IsNaN(b) /\ a > b

FLt(a, b) == ~IsNaN(a) /\ ~IsNaN(b) /\ a < b

MathMax(a, b) == IF IsNaN(a) \/ IsNaN(b) THEN NaN ELSE IF a > b THEN a ELSE b

MathMin(a, b) == IF IsNaN(a) \/ IsNaN(b) THEN NaN ELSE IF a < b THEN a ELSE b

\* extra * (pref / tot): 0/0 is NaN, and NaN in gives NaN out
FShare(extra, pref, tot) ==
  IF IsNaN(extra) \/ IsNaN(pref) \/ IsNaN(tot) \/ tot = 0 THEN NaN
  ELSE LET g == GCD(pref, tot) IN (extra * (pref \div g)) \div (tot \div g)

\* --------------------------------------------------------------- Vec2D
Dims2D == {"X", "Y"}

NewVec2D(x, y) == [X |-> x, Y |-> y]

Vec2DZero == NewVec2D(0, 0)

VecAdd(a, b) == [d \in Dims2D |-> FAdd(a[d], b[d])]

VecSubVal(a, v) == [d \in Dims2D |-> FAdd(a[d], 0 - v)]

VecAddVal(a, v) == [d \in Dims2D |-> FAdd(a[d], v)]

VecIsZero(a) == a.X = 0 /\ a.Y = 0

\* a.SetMax(b): per-dimension maximum
SetMax(a, b) == [d \in Dims2D |-> MathMax(a[d], b[d])]

\* a.SetMinPos(b): per-dimension minimum, taken only where b is positive
SetMinPos(a, b) == [d \in Dims2D |-> IF b[d] > 0 THEN MathMin(a[d], b[d]) ELSE a[d]]

\* --------------------------------------------------------------- Align
IsAlignStart(a) == a \in {"AlignLeft", "AlignTop", "AlignFlexStart", "AlignTextTop"}

IsAlignMiddle(a) == a \in {"AlignCenter", "AlignMiddle"}

IsAlignEnd(a) == a \in {"AlignRight", "AlignBottom", "AlignFlexEnd", "AlignTextBottom"}

\* the alignments the model draws styles from: one of each kind
Aligns == {"AlignLeft", "AlignCenter", "AlignRight", "AlignJustify"}

\* ------------------------------------------------------------ Overflow
Overflows == {"OverflowAuto", "OverflowScroll", "OverflowVisible", "OverflowHidden"}

\* --------------------------------------------------------- LayoutStyle
AlignDim(ls, d) == IF d = "X" THEN ls.AlignH ELSE ls.AlignV

PosDots(ls) == NewVec2D(ls.PosX, ls.PosY)

SizeDots(ls) == NewVec2D(ls.Width, ls.Height)

MaxSizeDots(ls) == NewVec2D(ls.MaxWidth, ls.MaxHeight)

MinSizeDots(ls) == NewVec2D(ls.MinWidth, ls.MinHeight)

\* Style.BoxSpace: margin + border width + padding
BoxSpace(ls) == ls.Margin + ls.BorderWidth + ls.Padding

\* ----------------------------------------------------------- SizePrefs
HasMaxStretch(sp, d) == sp.Max[d] < 0

CanStretchNeed(sp, d) == FGt(sp.Pref[d], sp.Need[d])

\* ---------------------------------------------------------- LayoutData
\* image.Point
Point(x, y) == [X |-> x, Y |-> y]

ZeroLayData ==
  [Size |-> [Need |-> Vec2DZero, Pref |-> Vec2DZero, Max |-> Vec2DZero],
   GridPos |-> Point(0, 0), GridSpan |-> Point(0, 0),
   AllocPos |-> Vec2DZero, AllocSize |-> Vec2DZero, AllocPosOrig |-> Vec2DZero]

\* LayoutData.Defaults: a span below 1 becomes 1
Defaults(ld) ==
  [ld EXCEPT !.GridSpan = Point(IF ld.GridSpan.X < 1 THEN 1 ELSE ld.GridSpan.X,
                                IF ld.GridSpan.Y < 1 THEN 1 ELSE ld.GridSpan.Y)]

Reset(ld) ==
  [ld EXCEPT !.AllocPos = Vec2DZero, !.AllocPosOrig = Vec2DZero, !.AllocSize = Vec2DZero]

\* mutant: the start-of-pass reset is dropped
SetFromStyleNoReset(ld, ls) ==
  [ld EXCEPT !.Size = [Need |-> MinSizeDots(ls), Pref |-> SizeDots(ls), Max |-> MaxSizeDots(ls)]]

SetFromStyle(ld, ls) ==
  [Reset(ld) EXCEPT !.Size = [Need |-> MinSizeDots(ls), Pref |-> SizeDots(ls), Max |-> MaxSizeDots(ls)],
                    !.AllocPos = PosDots(ls)]

\* mutant: the Max clamps run before Need is raised to AllocSize
UpdateSizesClampFirst(ld) ==
  LET need1 == SetMinPos(ld.Size.Need, ld.Size.Max)
      pref1 == SetMinPos(ld.Size.Pref, ld.Size.Max)
      need2 == SetMax(need1, ld.AllocSize)
      pref2 == SetMax(pref1, need2)
  IN  [ld EXCEPT !.Size.Need = need2, !.Size.Pref = pref2]

UpdateSizes(ld) ==
  LET need1 == SetMax(ld.Size.Need, ld.AllocSize)
      pref1 == SetMax(ld.Size.Pref, need1)
      need2 == SetMinPos(need1, ld.Size.Max)
      pref2 == SetMinPos(pref1, ld.Size.Max)
  IN  [ld EXCEPT !.Size.Need = need2, !.Size.Pref = pref2]

\* ---------------------------------------------------------------- nodes
\* a nil pointer; dereferencing it (reading a field) is an error, as in Go
NilPtr == [nil |-> TRUE]

IsNil(p) == "nil" \in DOMAIN p

\* Node2DBase.InitLayout2D: the node's LayData is set from its style
InitLayout2D(n) == [n EXCEPT !.LayData = SetFromStyle(n.LayData, n.Style)]

\* Size2D of a leaf (Stretch, Space): InitLayout2D only
LeafSize2D(n) == InitLayout2D(n)

\* the running sum and running maximum of the first i vectors of vs, from zero
RECURSIVE SumVec(_, _)
SumVec(vs, i) == IF i = 0 THEN Vec2DZero ELSE VecAdd(SumVec(vs, i - 1), vs[i])

RECURSIVE MaxVec(_, _)
MaxVec(vs, i) == IF i = 0 THEN Vec2DZero ELSE SetMax(MaxVec(vs, i - 1), vs[i])

\* the sum of the first i numbers of xs
RECURSIVE SumTo(_, _)
SumTo(xs, i) == IF i = 0 THEN 0 ELSE FAdd(SumTo(xs, i - 1), xs[i])

\* --------------------------------------------------------------- Layout
SumDim(ly, d) == (d = "X" /\ ly.Lay = "LayoutRow") \/ (d = "Y" /\ ly.Lay = "LayoutCol")

\* mutant: the layout's own Need and Pref are overwritten by the children's
GatherSizesNoFloor(ly) ==
  IF Len(ly.Kids) = 0 THEN ly
  ELSE
    LET kids == [i \in 1..Len(ly.Kids) |-> [ly.Kids[i] EXCEPT !.LayData = UpdateSizes(@)]]
        n == Len(kids)
        needs == [i \in 1..n |-> kids[i].LayData.Size.Need]
        prefs == [i \in 1..n |-> kids[i].LayData.Size.Pref]
        need1 == [d \in Dims2D |-> IF SumDim(ly, d) THEN SumVec(needs, n)[d] ELSE MaxVec(needs, n)[d]]
        pref1 == [d \in Dims2D |-> IF SumDim(ly, d) THEN SumVec(prefs, n)[d] ELSE MaxVec(prefs, n)[d]]
        spc == BoxSpace(ly.Style)
        ld1 == [ly.LayData EXCEPT !.Size.Need = VecAddVal(need1, 2 * spc),
                                  !.Size.Pref = VecAddVal(pref1, 2 * spc)]
    IN  [ly EXCEPT !.Kids = kids, !.LayData = UpdateSizes(ld1)]

GatherSizes(ly) ==
  IF Len(ly.Kids) = 0 THEN ly
  ELSE
    LET kids == [i \in 1..Len(ly.Kids) |-> [ly.Kids[i] EXCEPT !.LayData = UpdateSizes(@)]]
        n == Len(kids)
        needs == [i \in 1..n |-> kids[i].LayData.Size.Need]
        prefs == [i \in 1..n |-> kids[i].LayData.Size.Pref]
        sumNeed == SumVec(needs, n)
        sumPref == SumVec(prefs, n)
        maxNeed == MaxVec(needs, n)
        maxPref == MaxVec(prefs, n)
        need1 == [d \in Dims2D |->
                    IF SumDim(ly, d) THEN MathMax(ly.LayData.Size.Need[d], sumNeed[d])
                    ELSE MathMax(ly.LayData.Size.Need[d], maxNeed[d])]
        pref1 == [d \in Dims2D |->
                    IF SumDim(ly, d) THEN MathMax(ly.LayData.Size.Pref[d], sumPref[d])
                    ELSE MathMax(ly.LayData.Size.Pref[d], maxPref[d])]
        spc == BoxSpace(ly.Style)
        ld1 == [ly.LayData EXCEPT !.Size.Need = VecAddVal(need1, 2 * spc),
                                  !.Size.Pref = VecAddVal(pref1, 2 * spc)]
    IN  [ly EXCEPT !.Kids = kids, !.LayData = UpdateSizes(ld1)]

\* ----------------------------------------------------------------- grid
MaxInt(a, b) == IF a > b THEN a ELSE b

\* mutant: the square root is rounded up
ISqrtCeil(n) == CHOOSE c \in 0..n : (c = 0 \/ (c - 1) * (c - 1) < n) /\ n <= c * c

\* int(math.Sqrt(float64(n))): the square root, truncated
ISqrt(n) == CHOOSE c \in 0..n : c * c <= n /\ n < (c + 1) * (c + 1)

\* the first loop of GatherSizesGrid: the column and row counts the hints ask for
RECURSIVE GridHints(_, _)
GridHints(ly, i) ==
  IF i = 0 THEN [cols |-> ly.Style.Columns, rows |-> 0]
  ELSE LET h == GridHints(ly, i - 1)
           lst == ly.Kids[i].Style
       IN  [cols |-> IF lst.Col > 0 THEN MaxInt(h.cols, lst.Col + lst.ColSpan) ELSE h.cols,
            rows |-> IF lst.Row > 0 THEN MaxInt(h.rows, lst.Row + lst.RowSpan) ELSE h.rows]

\* for rows*cols < sz { rows++ }
RECURSIVE FillRows(_, _, _)
FillRows(rows, cols, sz) == IF rows * cols < sz THEN FillRows(rows + 1, cols, sz) ELSE rows

\* GridSize as GatherSizesGrid resolves it
GridSizeOf(ly) ==
  LET sz == Len(ly.Kids)
      h == GridHints(ly, sz)
      cols == IF h.cols = 0 THEN ISqrt(sz) ELSE h.cols
      rows == IF h.rows = 0 THEN sz \div cols ELSE h.rows
  IN  Point(cols, FillRows(rows, cols, sz))

\* the walk of GatherSizesGrid over the first i children: the cursor (col, row)
\* after them, the cell each child was given, the row data as accumulated, and
\* whether an index ran out of range (a run-time panic, which ends the walk)
RECURSIVE GridWalk(_, _)
GridWalk(ly, i) ==
  IF i = 0 THEN [col |-> 0, row |-> 0, cells |-> <<>>, data |-> ly.GridDataRows,
                 kids |-> ly.Kids, panicked |-> FALSE]
  ELSE
    LET w == GridWalk(ly, i - 1)
        ld == UpdateSizes(ly.Kids[i].LayData)
        lst == ly.Kids[i].Style
        col == IF lst.Col > 0 THEN lst.Col ELSE w.col
        row == IF lst.Row > 0 THEN lst.Row ELSE w.row
        kids == [w.kids EXCEPT ![i].LayData = ld]
        d1 == [w.data EXCEPT ![row + 1].Size.Need.Y = MathMax(@, ld.Size.Need.Y),
                             ![row + 1].Size.Pref.Y = MathMax(@, ld.Size.Pref.Y)]
        d2 == [d1 EXCEPT ![col + 1].Size.Need.X = MathMax(@, ld.Size.Need.X),
                         ![col + 1].Size.Pref.X = MathMax(@, ld.Size.Pref.X)]
        col1 == IF col + 1 >= ly.GridSize.X THEN 0 ELSE col + 1
        row1 == IF col + 1 >= ly.GridSize.X
                  THEN (IF row + 1 >= ly.GridSize.Y THEN 0 ELSE row + 1)
                  ELSE row
    IN  IF w.panicked THEN w
        ELSE IF row >= Len(w.data)
          THEN [w EXCEPT !.kids = kids, !.panicked = TRUE]
        ELSE IF col >= Len(w.data)
          THEN [w EXCEPT !.kids = kids, !.data = d1, !.panicked = TRUE]
        ELSE [col |-> col1, row |-> row1, cells |-> Append(w.cells, Point(col, row)),
              data |-> d2, kids |-> kids, panicked |-> FALSE]

\* GatherSizesGrid: the measure of a grid
GatherSizesGrid(ly) ==
  IF Len(ly.Kids) = 0 THEN ly
  ELSE
    LET gs == GridSizeOf(ly)
        l1 == [ly EXCEPT !.GridSize = gs,
                         !.GridDataRows = IF Len(@) # gs.Y THEN [r \in 1..gs.Y |-> ZeroLayData] ELSE @,
                         !.GridDataCols = IF Len(@) # gs.X THEN [c \in 1..gs.X |-> ZeroLayData] ELSE @]
        w == GridWalk(l1, Len(l1.Kids))
        l2 == [l1 EXCEPT !.Kids = w.kids, !.GridDataRows = w.data]
        nr == Len(l2.GridDataRows)
        nc == Len(l2.GridDataCols)
        sumY == FAdd(SumTo([r \in 1..nr |-> l2.GridDataRows[r].Size.Pref.Y], nr), (nr - 1) * ly.Style.Margin)
        sumX == FAdd(SumTo([c \in 1..nc |-> l2.GridDataCols[c].Size.Pref.X], nc), (nc - 1) * ly.Style.Margin)
        spc == BoxSpace(ly.Style)
        ld1 == [l2.LayData EXCEPT
                  !.Size.Need = VecAddVal(SetMax(@, NewVec2D(sumX, sumY)), 2 * spc),
                  !.Size.Pref = VecAddVal(SetMax(@, NewVec2D(sumX, sumY)), 2 * spc)]
    IN  IF w.panicked THEN [l2 EXCEPT !.Panicked = TRUE]
        ELSE [l2 EXCEPT !.LayData = UpdateSizes(ld1)]

\* the code's 0.1 of a dot
Tenth == Scale \div 10

\* mutant: the clamp of extra is dropped
NoNegativesOff(extra) == extra

\* extra = math.Max(extra, 0.0) // no negatives
NoNegatives(extra) == MathMax(extra, 0)

\* mutant: Pref fits only when it is no larger than avail, with no tolerance
LayoutSingleImplNoTolerance(ly, avail, need, pref, max, al) ==
  LET usePref == ~FLt(FAdd(avail, 0 - pref), 0)
      targ == IF usePref THEN pref ELSE need
      extra == NoNegatives(FAdd(avail, 0 - targ))
      stretch == FGt(extra, 0) /\ (~usePref \/ max < 0)
      pos0 == BoxSpace(ly.Style)
  IN  IF stretch \/ al = "AlignJustify" THEN [pos |-> pos0, size |-> FAdd(targ, extra)]
      ELSE IF IsAlignMiddle(al) THEN [pos |-> FAdd(pos0, extra \div 2), size |-> targ]
      ELSE IF IsAlignEnd(al) THEN [pos |-> FAdd(pos0, extra), size |-> targ]
      ELSE [pos |-> pos0, size |-> targ]

\* LayoutSingleImpl: position and size of one child on a cross axis
LayoutSingleImpl(ly, avail, need, pref, max, al) ==
  LET extra0 == FAdd(avail, 0 - pref)
      usePref == ~FLt(extra0, 0 - Tenth)
      targ == IF usePref THEN pref ELSE need
      extra == NoNegatives(FAdd(avail, 0 - targ))
      stretchMax == usePref /\ FGt(extra, 0) /\ max < 0
      stretchNeed == ~(usePref /\ FGt(extra, 0)) /\ FGt(extra, 0)
      pos0 == BoxSpace(ly.Style)
      size0 == IF usePref THEN pref ELSE need
  IN  IF stretchMax \/ stretchNeed THEN [pos |-> pos0, size |-> FAdd(size0, extra)]
      ELSE IF IsAlignMiddle(al) THEN [pos |-> FAdd(pos0, extra \div 2), size |-> size0]
      ELSE IF IsAlignEnd(al) THEN [pos |-> FAdd(pos0, extra), size |-> size0]
      ELSE IF al = "AlignJustify" THEN [pos |-> pos0, size |-> FAdd(size0, extra)]
      ELSE [pos |-> pos0, size |-> size0]

\* LayoutSingle: every child placed on its own along dim
LayoutSingle(ly, dim) ==
  LET spc == BoxSpace(ly.Style)
      avail == ly.LayData.AllocSize[dim] - 2 * spc
      place(k) == LayoutSingleImpl(ly, avail, k.LayData.Size.Need[dim], k.LayData.Size.Pref[dim],
                                   k.LayData.Size.Max[dim], AlignDim(k.Style, dim))
  IN  [ly EXCEPT !.Kids = [i \in 1..Len(ly.Kids) |->
         [ly.Kids[i] EXCEPT !.LayData.AllocSize[dim] = place(ly.Kids[i]).size,
                            !.LayData.AllocPos[dim] = place(ly.Kids[i]).pos]]]

\* what LayoutAll decides before it walks the children
LayoutAllPlan(ly, dim) ==
  LET sz == Len(ly.Kids)
      al == AlignDim(ly.Style, dim)
      spc == BoxSpace(ly.Style)
      avail == ly.LayData.AllocSize[dim] - 2 * spc
      pref == ly.LayData.Size.Pref[dim]
      need == ly.LayData.Size.Need[dim]
      usePref == ~FLt(FAdd(avail, 0 - pref), 0 - Tenth)
      targ == IF usePref THEN pref ELSE need
      extra == NoNegatives(FAdd(avail, 0 - targ))
      sel(k) == IF usePref THEN HasMaxStretch(k.LayData.Size, dim)
                ELSE HasMaxStretch(k.LayData.Size, dim) \/ CanStretchNeed(k.LayData.Size, dim)
      picked == [i \in 1..sz |-> FGt(extra, 0) /\ sel(ly.Kids[i])]
      nstretch == Cardinality({i \in 1..sz : picked[i]})
      stretchTot == SumTo([i \in 1..sz |-> IF picked[i] THEN ly.Kids[i].LayData.Size.Pref[dim] ELSE 0], sz)
      stretchMax == usePref /\ FGt(extra, 0) /\ nstretch > 0
      stretchNeed == ~usePref /\ FGt(extra, 0) /\ nstretch > 0
      addSpace == sz > 1 /\ FGt(extra, 0) /\ al = "AlignJustify" /\ ~stretchNeed /\ ~stretchMax
  IN  [avail |-> avail, usePref |-> usePref, targ |-> targ, extra |-> extra,
       picked |-> picked, nstretch |-> nstretch, stretchTot |-> stretchTot,
       stretchMax |-> stretchMax, stretchNeed |-> stretchNeed, addSpace |-> addSpace,
       extraSpace |-> IF addSpace THEN extra \div (sz - 1) ELSE 0,
       pos0 |-> IF IsAlignEnd(al) /\ ~stretchNeed /\ ~stretchMax THEN FAdd(spc, extra) ELSE spc]

\* the size LayoutAll gives child i
LayoutAllSize(ly, dim, pl, i) ==
  LET sp == ly.Kids[i].LayData.Size
      size0 == IF pl.usePref THEN sp.Pref[dim] ELSE sp.Need[dim]
  IN  IF pl.stretchMax
        THEN IF HasMaxStretch(sp, dim) THEN FAdd(size0, FShare(pl.extra, sp.Pref[dim], pl.stretchTot))
             ELSE size0
      ELSE IF pl.stretchNeed
        THEN IF HasMaxStretch(sp, dim) \/ CanStretchNeed(sp, dim)
               THEN FAdd(size0, FShare(pl.extra, sp.Pref[dim], pl.stretchTot))
             ELSE size0
      ELSE size0

\* mutant: the cursor never takes the justify gap
RECURSIVE LayoutAllPosNoGap(_, _, _, _)
LayoutAllPosNoGap(ly, dim, pl, i) ==
  IF i = 1 THEN pl.pos0
  ELSE FAdd(LayoutAllPosNoGap(ly, dim, pl, i - 1), LayoutAllSize(ly, dim, pl, i - 1))

\* the position LayoutAll gives child i: the running cursor
RECURSIVE LayoutAllPos(_, _, _, _)
LayoutAllPos(ly, dim, pl, i) ==
  IF i = 1 THEN pl.pos0
  ELSE FAdd(FAdd(LayoutAllPos(ly, dim, pl, i - 1), LayoutAllSize(ly, dim, pl, i - 1)),
            IF pl.addSpace THEN pl.extraSpace ELSE 0)

\* LayoutAll: the children laid end to end along dim
LayoutAll(ly, dim) ==
  IF Len(ly.Kids) = 0 THEN ly
  ELSE LET pl == LayoutAllPlan(ly, dim)
       IN  [ly EXCEPT !.Kids = [i \in 1..Len(ly.Kids) |->
              [ly.Kids[i] EXCEPT !.LayData.AllocSize[dim] = LayoutAllSize(ly, dim, pl, i),
                                 !.LayData.AllocPos[dim] = LayoutAllPos(ly, dim, pl, i)]]]

\* FinalizeLayout: original positions captured, ChildSize is the children's bound
FinalizeLayout(ly) ==
  LET n == Len(ly.Kids)
      ends == [i \in 1..n |-> VecAdd(ly.Kids[i].LayData.AllocPos, ly.Kids[i].LayData.AllocSize)]
  IN  [ly EXCEPT !.ChildSize = MaxVec(ends, n),
                 !.Kids = [i \in 1..n |-> [ly.Kids[i] EXCEPT !.LayData.AllocPosOrig = ly.Kids[i].LayData.AllocPos]]]

\* ----------------------------------------------------------- scrollbars
\* image.ZR, and the bounding box a node's allocation gives it
ZR == [Min |-> Vec2DZero, Max |-> Vec2DZero]

BBoxFromAlloc(ld) == [Min |-> ld.AllocPos, Max |-> VecAdd(ld.AllocPos, ld.AllocSize)]

\* LayoutStyle.Defaults: ScrollBarWidth is 16px
ScrollBarWidthPx == 16

\* &ScrollBar{} after InitName, SetParent, Init2D, Defaults
NewScrollBar(horiz) ==
  [Horiz |-> horiz, Min |-> 0, Max |-> 0, ThumbVal |-> 0, Value |-> 0, Tracking |-> FALSE,
   LayData |-> ZeroLayData, VpBBox |-> ZR, WinBBox |-> ZR, SliderSig |-> <<>>]

\* Signal.FindConnectionIndex / Signal.Connect: a (receiver, function) pair is added once
FindConnectionIndex(cons, recv, fun) ==
  IF \E i \in 1..Len(cons) : cons[i].Recv = recv /\ cons[i].Func = fun
    THEN (CHOOSE i \in 1..Len(cons) : cons[i].Recv = recv /\ cons[i].Func = fun
                                      /\ \A j \in 1..(i - 1) : ~(cons[j].Recv = recv /\ cons[j].Func = fun)) - 1
  ELSE 0 - 1

\* mutant: a connection is appended whether or not it is already there
ConnectAgain(cons, recv, fun) == Append(cons, [Recv |-> recv, Func |-> fun])

Connect(cons, recv, fun) ==
  IF FindConnectionIndex(cons, recv, fun) >= 0 THEN cons
  ELSE Append(cons, [Recv |-> recv, Func |-> fun])

\* the loop of Emit: i runs over the indexes of the connections as they were
\* when the loop began, deleted counts the connections removed so far
RECURSIVE EmitLoop(_, _, _, _, _, _)
EmitLoop(cons, destroyed, n, i, deleted, calls) ==
  IF i >= n THEN [Cons |-> cons, Calls |-> calls]
  ELSE LET j == i - deleted
           con == cons[j + 1]
       IN  IF con.Recv \in destroyed
             THEN EmitLoop(SubSeq(cons, 1, j) \o SubSeq(cons, j + 2, Len(cons)),
                           destroyed, n, i + 1, deleted + 1, calls)
           ELSE EmitLoop(cons, destroyed, n, i + 1, deleted, Append(calls, con))

\* mutant: the connections of destroyed receivers are skipped but kept
EmitNoPrune(cons, destroyed, sender) ==
  IF IsNil(sender) \/ sender.Nm \in destroyed THEN [Cons |-> cons, Calls |-> <<>>]
  ELSE [Cons |-> cons, Calls |-> SelectSeq(cons, LAMBDA c : c.Recv \notin destroyed)]

\* Signal.Emit: the connections it leaves and the functions it called, in order
Emit(cons, destroyed, sender) ==
  IF IsNil(sender) \/ sender.Nm \in destroyed THEN [Cons |-> cons, Calls |-> <<>>]
  ELSE EmitLoop(cons, destroyed, Len(cons), 0, 0, <<>>)

\* mutant: the room the other scrollbar takes is left out of the range
SetHScrollNoExtra(ly) ==
  LET sc0 == IF IsNil(ly.HScroll) THEN NewScrollBar(TRUE) ELSE ly.HScroll
      spc == BoxSpace(ly.Style)
      sc == [sc0 EXCEPT !.Min = 0,
                        !.Max = ly.ChildSize.X,
                        !.ThumbVal = ly.LayData.AllocSize.X - spc,
                        !.Tracking = TRUE,
                        !.SliderSig = Connect(@, "ly", "SetHScroll.func1")]
  IN  [ly EXCEPT !.HScroll = sc]

SetHScroll(ly) ==
  LET sc0 == IF IsNil(ly.HScroll) THEN NewScrollBar(TRUE) ELSE ly.HScroll
      spc == BoxSpace(ly.Style)
      sc == [sc0 EXCEPT !.Min = 0,
                        !.Max = FAdd(ly.ChildSize.X, ly.ExtraSize.X),
                        !.ThumbVal = ly.LayData.AllocSize.X - spc,
                        !.Tracking = TRUE,
                        !.SliderSig = Connect(@, "ly", "SetHScroll.func1")]
  IN  [ly EXCEPT !.HScroll = sc]

SetVScroll(ly) ==
  LET sc0 == IF IsNil(ly.VScroll) THEN NewScrollBar(FALSE) ELSE ly.VScroll
      spc == BoxSpace(ly.Style)
      sc == [sc0 EXCEPT !.Min = 0,
                        !.Max = FAdd(ly.ChildSize.Y, ly.ExtraSize.Y),
                        !.ThumbVal = ly.LayData.AllocSize.Y - spc,
                        !.Tracking = TRUE,
                        !.SliderSig = Connect(@, "ly", "SetVScroll.func1")]
  IN  [ly EXCEPT !.VScroll = sc]

DeactivateScroll(sc) ==
  [sc EXCEPT !.LayData.AllocPos = Vec2DZero, !.LayData.AllocSize = Vec2DZero,
             !.VpBBox = ZR, !.WinBBox = ZR]

\* the scrollbar's own Size2D then Layout2D, between which LayoutScrolls places it
PlaceScroll(sc, pos, size) ==
  LET ld == [Reset(sc.LayData) EXCEPT !.AllocPos = pos, !.AllocPosOrig = pos, !.AllocSize = size]
  IN  [sc EXCEPT !.LayData = ld, !.VpBBox = BBoxFromAlloc(ld), !.WinBBox = BBoxFromAlloc(ld)]

LayoutScrolls(ly) ==
  LET sbw == ly.Style.ScrollBarWidth
      ap == ly.LayData.AllocPos
      as == ly.LayData.AllocSize
      h == IF ly.HasHScroll
             THEN PlaceScroll(ly.HScroll,
                    NewVec2D(ap.X, ap.Y + as.Y - sbw - Dots(2)),
                    NewVec2D(IF ly.HasVScroll THEN as.X - sbw ELSE as.X, sbw))
           ELSE IF ~IsNil(ly.HScroll) THEN DeactivateScroll(ly.HScroll) ELSE ly.HScroll
      v == IF ly.HasVScroll
             THEN PlaceScroll(ly.VScroll,
                    NewVec2D(ap.X + as.X - sbw - Dots(2), ap.Y),
                    NewVec2D(sbw, IF ly.HasHScroll THEN as.Y - sbw ELSE as.Y))
           ELSE IF ~IsNil(ly.VScroll) THEN DeactivateScroll(ly.VScroll) ELSE ly.VScroll
  IN  [ly EXCEPT !.HScroll = h, !.VScroll = v]

\* mutant: an axis scrolls already when the children just fill the space
ManageOverflowAtBoundary(ly) ==
  IF Len(ly.Kids) = 0 THEN ly
  ELSE
    LET avail == VecSubVal(ly.LayData.AllocSize, BoxSpace(ly.Style))
        l0 == [ly EXCEPT !.ExtraSize = Vec2DZero, !.HasHScroll = FALSE, !.HasVScroll = FALSE]
    IN  IF ly.Style.Overflow # "OverflowHidden"
          THEN LET hasH == ~FLt(ly.ChildSize.X, avail.X)
                   hasV == ~FLt(ly.ChildSize.Y, avail.Y)
                   l1 == [l0 EXCEPT !.HasHScroll = hasH, !.HasVScroll = hasV,
                                    !.ExtraSize = NewVec2D(IF hasV THEN ly.Style.ScrollBarWidth ELSE 0,
                                                           IF hasH THEN ly.Style.ScrollBarWidth ELSE 0)]
                   l2 == IF hasH THEN SetHScroll(l1) ELSE l1
                   l3 == IF hasV THEN SetVScroll(l2) ELSE l2
               IN  LayoutScrolls(l3)
        ELSE l0

\* mutant: the Hidden policy is not looked at
ManageOverflowIgnoreHidden(ly) ==
  IF Len(ly.Kids) = 0 THEN ly
  ELSE
    LET avail == VecSubVal(ly.LayData.AllocSize, BoxSpace(ly.Style))
        hasH == FGt(ly.ChildSize.X, avail.X)
        hasV == FGt(ly.ChildSize.Y, avail.Y)
        l1 == [ly EXCEPT !.HasHScroll = hasH, !.HasVScroll = hasV,
                         !.ExtraSize = NewVec2D(IF hasV THEN ly.Style.ScrollBarWidth ELSE 0,
                                                IF hasH THEN ly.Style.ScrollBarWidth ELSE 0)]
        l2 == IF hasH THEN SetHScroll(l1) ELSE l1
        l3 == IF hasV THEN SetVScroll(l2) ELSE l2
    IN  LayoutScrolls(l3)

ManageOverflow(ly) ==
  IF Len(ly.Kids) = 0 THEN ly
  ELSE
    LET avail == VecSubVal(ly.LayData.AllocSize, BoxSpace(ly.Style))
        l0 == [ly EXCEPT !.ExtraSize = Vec2DZero, !.HasHScroll = FALSE, !.HasVScroll = FALSE]
    IN  IF ly.Style.Overflow # "OverflowHidden"
          THEN LET hasH == FGt(ly.ChildSize.X, avail.X)
                   hasV == FGt(ly.ChildSize.Y, avail.Y)
                   l1 == [l0 EXCEPT !.HasHScroll = hasH, !.HasVScroll = hasV,
                                    !.ExtraSize = NewVec2D(IF hasV THEN ly.Style.ScrollBarWidth ELSE 0,
                                                           IF hasH THEN ly.Style.ScrollBarWidth ELSE 0)]
                   l2 == IF hasH THEN SetHScroll(l1) ELSE l1
                   l3 == IF hasV THEN SetVScroll(l2) ELSE l2
               IN  LayoutScrolls(l3)
        ELSE l0

\* ------------------------------------------------------------- rendering
\* RenderScrolls: the scrollbars whose flag is set are rendered
RenderScrolls(ly) ==
  (IF ly.HasHScroll THEN <<"HScroll">> ELSE <<>>) \o (IF ly.HasVScroll THEN <<"VScroll">> ELSE <<>>)

\* Render2DChildren: the names of the children rendered, in order.  A Stacked
\* layout renders the node StackTop points to, whatever it is, or nothing
\* when StackTop is nil
Render2DChildren(ly) ==
  IF ly.Lay = "LayoutStacked"
    THEN IF IsNil(ly.StackTop) THEN <<>> ELSE <<ly.StackTop.Nm>>
  ELSE [i \in 1..Len(ly.Kids) |-> ly.Kids[i].Nm]

\* Kids.ValidIndex: an index outside the children is an error
ValidIndex(kids, idx) == idx >= 0 /\ idx < Len(kids)

\* ShowChildAtIndex: StackTop is pointed at the child, or left alone on an error
ShowChildAtIndexOf(ly, idx) ==
  IF ~ValidIndex(ly.Kids, idx) THEN ly
  ELSE [ly EXCEPT !.StackTop = [Nm |-> ly.Kids[idx + 1].Nm]]

\* ------------------------------------------------------------ the passes
\* the first ancestor from i up that stops the walk of AllocFromParent:
\* 0 when the root is passed without one
RECURSIVE FirstStop(_, _)
FirstStop(up, i) ==
  IF i > Len(up) THEN 0
  ELSE IF ~up[i].IsNode2D \/ ~VecIsZero(up[i].LayData.AllocSize) THEN i
  ELSE FirstStop(up, i + 1)

\* mutant: the ancestors are asked also when the parent is a Layout
AllocFromParentAnyParent(ly, up) ==
  IF Len(up) = 0 \/ ~VecIsZero(ly.LayData.AllocSize) THEN ly
  ELSE IF ~up[1].IsNode2D THEN [ly EXCEPT !.Panicked = TRUE]
  ELSE LET i == FirstStop(up, 1)
       IN  IF i = 0 \/ ~up[i].IsNode2D THEN ly
           ELSE [ly EXCEPT !.LayData.AllocPos = up[i].LayData.AllocPos,
                           !.LayData.AllocSize = up[i].LayData.AllocSize]

\* AllocFromParent: up is the chain of ancestors, the parent first.
\* KiToNode2D gives nil for a parent that is not a Node2D, and the method
\* call pgi.AsLayout2D() on that nil interface panics.
AllocFromParent(ly, up) ==
  IF Len(up) = 0 \/ ~VecIsZero(ly.LayData.AllocSize) THEN ly
  ELSE IF ~up[1].IsNode2D THEN [ly EXCEPT !.Panicked = TRUE]
  ELSE IF up[1].IsLayout THEN ly
  ELSE LET i == FirstStop(up, 1)
       IN  IF i = 0 \/ ~up[i].IsNode2D THEN ly
           ELSE [ly EXCEPT !.LayData.AllocPos = up[i].LayData.AllocPos,
                           !.LayData.AllocSize = up[i].LayData.AllocSize]

\* mutant: the scroll offset is added, not subtracted
Move2DDeltaAdd(ly, delta) ==
  [X |-> IF ly.HasHScroll THEN delta.X + ly.HScroll.Value ELSE delta.X,
   Y |-> IF ly.HasVScroll THEN delta.Y + ly.VScroll.Value ELSE delta.Y]

Move2DDelta(ly, delta) ==
  [X |-> IF ly.HasHScroll THEN delta.X - ly.HScroll.Value ELSE delta.X,
   Y |-> IF ly.HasVScroll THEN delta.Y - ly.VScroll.Value ELSE delta.Y]

\* Move2DBase: the effective position is the original one plus delta
Move2DBase(n, delta) == [n EXCEPT !.LayData.AllocPos = VecAdd(n.LayData.AllocPosOrig, delta)]

Move2DChildren(ly, delta) ==
  [ly EXCEPT !.Kids = [i \in 1..Len(ly.Kids) |-> Move2DBase(ly.Kids[i], delta)]]

Move2D(ly, delta) == Move2DChildren(Move2DBase(ly, delta), Move2DDelta(ly, delta))

\* Move2DTree: the move starts from the node's own current offset
Move2DTree(ly) ==
  Move2D(ly, [d \in Dims2D |-> ly.LayData.AllocPos[d] - ly.LayData.AllocPosOrig[d]])

\* Layout.Size2D
LayoutSize2D(ly) == GatherSizes(InitLayout2D(ly))

\* Layout.Layout2D
LayoutLayout2D(ly, up) ==
  LET l0 == AllocFromParent(ly, up)
      l1 == IF l0.Lay = "LayoutRow" THEN LayoutSingle(LayoutAll(l0, "X"), "Y")
            ELSE IF l0.Lay = "LayoutCol" THEN LayoutSingle(LayoutAll(l0, "Y"), "X")
            ELSE IF l0.Lay = "LayoutStacked" THEN LayoutSingle(LayoutSingle(l0, "X"), "Y")
            ELSE l0
      l2 == ManageOverflow(FinalizeLayout(l1))
      delta == Move2DDelta(l2, Vec2DZero)
  IN  IF l0.Panicked THEN l0
      ELSE IF ~VecIsZero(delta) THEN Move2DChildren(l2, delta) ELSE l2

\* the spec's worked Row: three children of Pref widths 50, 100, 150 dots,
\* in a Row 400 wide; also a width just above the Pref total and one below it
ScenarioPrefs == <<50, 100, 150>>

RowWidths == {200, 320, 400}

\* ---------------------------------------------------------------- units
\* A float32 of package units is modelled as an exact non-negative fraction
\* n/d in lowest terms; d = 0 is +Inf (n = 1) or NaN (n = 0).  Rounding is
\* not modelled.
Rat(n, d) ==
  IF d = 0 THEN [n |-> IF n = 0 THEN 0 ELSE 1, d |-> 0]
  ELSE LET g == GCD(n, d) IN [n |-> n \div g, d |-> d \div g]

RInt(k) == Rat(k, 1)

RNaN == Rat(0, 0)

RInf == Rat(1, 0)

IsFinite(r) == r.d # 0

\* IEEE division
RDiv(a, b) ==
  IF a = RNaN \/ b = RNaN THEN RNaN
  ELSE IF b = RInf THEN (IF a = RInf THEN RNaN ELSE RInt(0))
  ELSE IF a = RInf THEN RInf
  ELSE IF b.n = 0 THEN (IF a.n = 0 THEN RNaN ELSE RInf)
  ELSE Rat(a.n * b.d, a.d * b.n)

\* IEEE multiplication
RMul(a, b) ==
  IF a = RNaN \/ b = RNaN THEN RNaN
  ELSE IF a = RInf \/ b = RInf
    THEN (IF (a # RInf /\ a.n = 0) \/ (b # RInf /\ b.n = 0) THEN RNaN ELSE RInf)
  ELSE Rat(a.n * b.n, a.d * b.d)

RLess(a, b) == IF b = RInf THEN a # RInf ELSE a # RInf /\ a.n * b.d < b.n * a.d

Min32(a, b) == IF RLess(a, b) THEN a ELSE b

Max32(a, b) == IF RLess(a, b) THEN b ELSE a

\* standard conversion factors
PxPerInch == RInt(96)

DpPerInch == RInt(160)

MmPerInch == Rat(254, 10)

CmPerInch == Rat(254, 100)

PtPerInch == RInt(72)

PcPerInch == RInt(6)

\* type Unit, in the order of its constants
UnitSeq ==
  <<"Px", "Dp", "Pct", "Rem", "Em", "Ex", "Ch", "Vw", "Vh", "Vmin", "Vmax",
    "Cm", "Mm", "Q", "In", "Pc", "Pt", "Dot">>

\* Context.Defaults
ContextDefaults(uc) ==
  [uc EXCEPT !.DPI = PxPerInch, !.FontEm = RInt(12), !.FontEx = RInt(6), !.FontCh = RInt(6),
             !.FontRem = RInt(12), !.VpW = RInt(800), !.VpH = RInt(600),
             !.ElW = RInt(800), !.ElH = RInt(600)]

\* mutant: an uninitialized Context is used as it is
ToDotsFactorNoDefaults(uc0, un) ==
  [uc |-> uc0,
   f |-> CASE un = "Pct" -> uc0.ElW
           [] un = "Em" -> RDiv(uc0.DPI, RDiv(PtPerInch, uc0.FontEm))
           [] un = "Vw" -> uc0.VpW
           [] un = "Vh" -> uc0.VpH
           [] un = "Dot" -> RInt(1)
           [] OTHER -> uc0.DPI]

\* Context.ToDotsFactor: the factor, and the Context as the call leaves it
ToDotsFactor(uc0, un) ==
  LET uc == IF uc0.DPI = RInt(0) THEN ContextDefaults(uc0) ELSE uc0
  IN  [uc |-> uc,
       f |-> CASE un = "Pct" -> uc.ElW
               [] un = "Em" -> RDiv(uc.DPI, RDiv(PtPerInch, uc.FontEm))
               [] un = "Ex" -> RDiv(uc.DPI, RDiv(PtPerInch, uc.FontEx))
               [] un = "Ch" -> RDiv(uc.DPI, RDiv(PtPerInch, uc.FontCh))
               [] un = "Rem" -> RDiv(uc.DPI, RDiv(PtPerInch, uc.FontRem))
               [] un = "Vw" -> uc.VpW
               [] un = "Vh" -> uc.VpH
               [] un = "Vmin" -> Min32(uc.VpW, uc.VpH)
               [] un = "Vmax" -> Max32(uc.VpW, uc.VpH)
               [] un = "Cm" -> RDiv(uc.DPI, CmPerInch)
               [] un = "Mm" -> RDiv(uc.DPI, MmPerInch)
               [] un = "Q" -> RDiv(uc.DPI, RMul(RInt(4), MmPerInch))
               [] un = "In" -> uc.DPI
               [] un = "Pc" -> RDiv(uc.DPI, PcPerInch)
               [] un = "Pt" -> RDiv(uc.DPI, PtPerInch)
               [] un = "Px" -> RDiv(uc.DPI, PxPerInch)
               [] un = "Dp" -> RDiv(uc.DPI, DpPerInch)
               [] un = "Dot" -> RInt(1)
               [] OTHER -> uc.DPI]

\* Context.ToDots
ToDots(uc0, val, un) ==
  LET r == ToDotsFactor(uc0, un) IN [uc |-> r.uc, res |-> RMul(val, r.f)]

\* ------------------------------------------------------ Value parsing
\* A string is a sequence of one-character strings (ASCII).
UnitNames ==
  <<<<"p", "x">>, <<"d", "p">>, <<"p", "c", "t">>, <<"r", "e", "m">>, <<"e", "m">>, <<"e", "x">>,
    <<"c", "h">>, <<"v", "w">>, <<"v", "h">>, <<"v", "m", "i", "n">>, <<"v", "m", "a", "x">>,
    <<"c", "m">>, <<"m", "m">>, <<"q">>, <<"i", "n">>, <<"p", "c">>, <<"p", "t">>, <<"d", "o", "t">>>>

\* strings.ToLower, on the letters the model's strings use
LowerChar(c) ==
  CASE c = "R" -> "r" [] c = "E" -> "e" [] c = "M" -> "m" [] c = "P" -> "p" [] c = "X" -> "x"
    [] OTHER -> c

ToLower(cs) == [i \in 1..Len(cs) |-> LowerChar(cs[i])]

\* strings.TrimSpace
RECURSIVE TrimLeft(_)
TrimLeft(cs) == IF Len(cs) > 0 /\ cs[1] = " " THEN TrimLeft(Tail(cs)) ELSE cs

RECURSIVE TrimRight(_)
TrimRight(cs) == IF Len(cs) > 0 /\ cs[Len(cs)] = " " THEN TrimRight(SubSeq(cs, 1, Len(cs) - 1)) ELSE cs

TrimSpace(cs) == TrimRight(TrimLeft(cs))

\* trstr[sz-k:]
LastChars(cs, k) == SubSeq(cs, Len(cs) - k + 1, Len(cs))

Digits == {"0", "1", "2", "3", "4", "5", "6", "7", "8", "9"}

DigitVal(c) == CHOOSE k \in 0..9 : ToString(k) = c

\* how many leading characters of cs are digits
RECURSIVE DigitRun(_)
DigitRun(cs) == IF Len(cs) > 0 /\ cs[1] \in Digits THEN 1 + DigitRun(Tail(cs)) ELSE 0

\* the decimal number a string of digits spells
RECURSIVE DigitsVal(_)
DigitsVal(ds) ==
  IF Len(ds) = 0 THEN 0 ELSE 10 * DigitsVal(SubSeq(ds, 1, Len(ds) - 1)) + DigitVal(ds[Len(ds)])

\* fmt.Sscanf(str, "%g", &val) on an unsigned number without a decimal point:
\* the token is the leading digits and, if an exponent letter follows them,
\* the letter and the digits after it; a token that is no number is an error
\* and leaves val as it was
Sscanf(cs, val) ==
  LET nd == DigitRun(cs)
      rest == SubSeq(cs, nd + 1, Len(cs))
      hasExp == Len(rest) > 0 /\ rest[1] \in {"e", "E", "p", "P"}
      ne == IF hasExp THEN DigitRun(Tail(rest)) ELSE 0
  IN  IF nd = 0 THEN val
      ELSE IF ~hasExp THEN RInt(DigitsVal(SubSeq(cs, 1, nd)))
      ELSE IF ne = 0 \/ rest[1] \in {"p", "P"} THEN val
      ELSE RInt(DigitsVal(SubSeq(cs, 1, nd)) * 10 ^ DigitsVal(SubSeq(rest, 2, ne + 1)))

\* the loop of SetFromString over UnitNames from index i: the first name that
\* equals the end of its length
RECURSIVE FindUnit(_, _)
FindUnit(ends, i) ==
  IF i > Len(UnitNames) THEN 0
  ELSE IF ends[Len(UnitNames[i])] = UnitNames[i] THEN i
  ELSE FindUnit(ends, i + 1)

\* Value.SetFromString
SetFromString(v, str) ==
  LET trstr == TrimSpace(str)
      sz == Len(trstr)
      ends == <<ToLower(LastChars(trstr, 1)), ToLower(LastChars(trstr, 2)),
                IF sz > 3 THEN ToLower(LastChars(trstr, 3)) ELSE <<>>,
                IF sz > 4 THEN ToLower(LastChars(trstr, 4)) ELSE <<>>>>
      i == FindUnit(ends, 1)
      numstr0 == IF i = 0 THEN <<>> ELSE SubSeq(trstr, 1, sz - Len(UnitNames[i]))
      numstr == IF Len(numstr0) = 0 THEN trstr ELSE numstr0
  IN  IF sz < 2 THEN [v EXCEPT !.Val = RInt(0), !.Un = "Px"]
      ELSE [v EXCEPT !.Val = Sscanf(TrimSpace(numstr), RInt(0)),
                     !.Un = IF i = 0 THEN "Px" ELSE UnitSeq[i]]

\* ---------------------------------------------------------------- state
VARIABLES
  ly,    \* the Layout: Lay, Style, LayData, Kids, ChildSize, ExtraSize, Has?Scroll, ?Scroll,
         \* and Panicked: a run-time panic has ended the pass
  up,    \* the Layout's ancestors, its parent first
  pc,    \* where the layout pass stands
  prev,  \* history: the allocation and the children's geometry the pass before gave
  made,  \* history: how many scrollbar objects were created, per axis
  drawn, \* what the last Render2D drew: the scrollbars and the children, by name
  units, \* package units: a Context, a Value, the string last parsed and the last conversion
  signal \* package ki: a Signal, the nodes destroyed, and what the last Emit called

vars == <<ly, up, pc, prev, made, drawn, units, signal>>

\* what a pass leaves in the children
Geometry(l) ==
  [alloc |-> l.LayData.AllocSize,
   kids |-> [i \in 1..Len(l.Kids) |-> [AllocPos |-> l.Kids[i].LayData.AllocPos,
                                       AllocSize |-> l.Kids[i].LayData.AllocSize]]]

\* the measure pass over the tree: the children's Size2D, then the Layout's
Size2D ==
  /\ pc \in {"init", "laidout", "changed", "rendered"}
  /\ ly' = LayoutSize2D([ly EXCEPT !.Kids = [i \in 1..Len(ly.Kids) |-> LeafSize2D(ly.Kids[i])]])
  /\ prev' = IF pc = "laidout" THEN Geometry(ly) ELSE NilPtr
  /\ pc' = "sized"
  /\ UNCHANGED <<units, signal, drawn, up, made>>

\* GatherSizesGrid is called on a measured grid
CallGatherSizesGrid ==
  /\ pc = "sized"
  /\ ly.Lay = "LayoutGrid"
  /\ ly' = GatherSizesGrid(ly)
  /\ pc' = IF ly'.Panicked THEN "panic" ELSE "gridsized"
  /\ UNCHANGED <<units, signal, drawn, up, prev, made>>

\* LayoutData.Defaults is called on every child before the first pass
CallDefaults ==
  /\ pc = "init"
  /\ ly' = [ly EXCEPT !.Kids = [i \in 1..Len(ly.Kids) |-> [ly.Kids[i] EXCEPT !.LayData = Defaults(@)]]]
  /\ ly' # ly
  /\ UNCHANGED <<units, signal, drawn, up, pc, prev, made>>

\* the parent's arrange step gives the Layout its allocation
ParentAlloc ==
  /\ pc \in {"sized", "gridsized"}
  /\ \E w \in 0..MaxAvail :
       /\ ly' = [ly EXCEPT !.LayData.AllocSize = NewVec2D(Dots(w), Dots(w))]
       /\ prev' = IF ~IsNil(prev) /\ prev.alloc = NewVec2D(Dots(w), Dots(w)) THEN prev ELSE NilPtr
  /\ pc' = "alloc"
  /\ UNCHANGED <<units, signal, drawn, up, made>>

\* the parent gives the Layout one of the widths of the worked scenarios
RowAlloc ==
  /\ pc = "sized"
  /\ \E w \in RowWidths :
       /\ ly' = [ly EXCEPT !.LayData.AllocSize = NewVec2D(Dots(w), Dots(w))]
       /\ prev' = IF ~IsNil(prev) /\ prev.alloc = NewVec2D(Dots(w), Dots(w)) THEN prev ELSE NilPtr
  /\ pc' = "alloc"
  /\ UNCHANGED <<units, signal, drawn, up, made>>

\* the arrange pass
Layout2D ==
  /\ pc = "alloc"
  /\ ly' = LayoutLayout2D(ly, up)
  /\ made' = [H |-> made.H + (IF IsNil(ly.HScroll) /\ ~IsNil(ly'.HScroll) THEN 1 ELSE 0),
              V |-> made.V + (IF IsNil(ly.VScroll) /\ ~IsNil(ly'.VScroll) THEN 1 ELSE 0)]
  /\ pc' = IF ly'.Panicked THEN "panic" ELSE "laidout"
  /\ UNCHANGED <<units, signal, drawn, up, prev>>

\* a style change between passes: the overflow policy
SetOverflow ==
  /\ pc \in {"laidout", "changed"}
  /\ \E o \in Overflows \ {ly.Style.Overflow} : ly' = [ly EXCEPT !.Style.Overflow = o]
  /\ pc' = "changed"
  /\ UNCHANGED <<units, signal, drawn, up, prev, made>>

\* a child is removed between passes
DeleteChild ==
  /\ pc \in {"laidout", "changed"}
  /\ \E i \in 1..Len(ly.Kids) :
       ly' = [ly EXCEPT !.Kids = [j \in 1..(Len(ly.Kids) - 1) |-> IF j < i THEN ly.Kids[j] ELSE ly.Kids[j + 1]]]
  /\ pc' = "changed"
  /\ UNCHANGED <<units, signal, drawn, up, prev, made>>

\* ShowChildAtIndex is called between passes, with any index
ShowChildAtIndex ==
  /\ pc \in {"laidout", "changed"}
  /\ \E idx \in 0..MaxKids : ly' = ShowChildAtIndexOf(ly, idx)
  /\ pc' = "changed"
  /\ UNCHANGED <<units, signal, drawn, up, prev, made>>

\* the render pass reaches the Layout: PushBounds says whether it is drawn
Render2D ==
  /\ pc \in {"laidout", "changed"}
  /\ \E pushed \in BOOLEAN :
       drawn' = IF pushed THEN [scrolls |-> RenderScrolls(ly), kids |-> Render2DChildren(ly)]
                ELSE [scrolls |-> <<>>, kids |-> <<>>]
  /\ pc' = "rendered"
  /\ UNCHANGED <<units, signal, ly, up, prev, made>>

\* the signal a slider value change sends reaches the Layout's receiver functions
\* (Signal.Emit): each connection's function runs Move2DTree on the Layout
RECURSIVE CallRecvs(_, _)
CallRecvs(l, calls) == IF calls = <<>> THEN l ELSE CallRecvs(Move2DTree(l), Tail(calls))

EmitSliderSig(l, sc) == CallRecvs(l, Emit(sc.SliderSig, {}, [Nm |-> "Lay_Scroll"]).Calls)

\* a scrollbar's value changes: SliderValueChanged is emitted
HSliderValueChanged ==
  /\ pc \in {"laidout", "changed"}
  /\ ~IsNil(ly.HScroll)
  /\ \E v \in 0..MaxValue :
       /\ Dots(v) # ly.HScroll.Value
       /\ ly' = EmitSliderSig([ly EXCEPT !.HScroll.Value = Dots(v)], ly.HScroll)
  /\ pc' = "changed"
  /\ UNCHANGED <<units, signal, drawn, up, prev, made>>

VSliderValueChanged ==
  /\ pc \in {"laidout", "changed"}
  /\ ~IsNil(ly.VScroll)
  /\ \E v \in 0..MaxValue :
       /\ Dots(v) # ly.VScroll.Value
       /\ ly' = EmitSliderSig([ly EXCEPT !.VScroll.Value = Dots(v)], ly.VScroll)
  /\ pc' = "changed"
  /\ UNCHANGED <<units, signal, drawn, up, prev, made>>

\* ------------------------------------------------------ strings parsed
\* Strings of the shape of a CSS length, well formed or not: optional space,
\* digits or none, letters or none, optional space.  The letters are a unit
\* name, in lower or upper case, or any word of up to MaxLetters letters over
\* e, m and r.
Words(n) == UNION {[1..k -> {"e", "m", "r"}] : k \in 0..n}

CssStrings ==
  {pre \o num \o word \o post :
     pre \in {<<>>, <<" ">>}, post \in {<<>>, <<" ">>},
     num \in {<<>>, <<"5">>, <<"2">>, <<"3">>, <<"1", "2">>},
     word \in Words(MaxLetters) \cup {UnitNames[i] : i \in 1..Len(UnitNames)}
              \cup {<<"R", "E", "M">>, <<"E", "m">>, <<"P", "X">>}}

\* ---------------------------------------------------- actions of units
\* the values handed to a conversion
ConvVals == {RInt(0), RInt(2), Rat(1, 2)}

\* Context.ToDots is called with any value and unit
ContextToDots ==
  /\ ~IsNil(units)
  /\ \E val \in ConvVals, i \in 1..Len(UnitSeq) :
       LET r == ToDots(units.uc, val, UnitSeq[i])
       IN  units' = [units EXCEPT !.uc = r.uc,
                                  !.last = [DPI |-> units.uc.DPI, val |-> val, un |-> UnitSeq[i], res |-> r.res]]
  /\ UNCHANGED <<ly, up, pc, prev, made, drawn, signal>>

\* Context.Defaults is called
CallContextDefaults ==
  /\ ~IsNil(units)
  /\ units' = [units EXCEPT !.uc = ContextDefaults(@)]
  /\ UNCHANGED <<ly, up, pc, prev, made, drawn, signal>>

\* Value.SetFromString is called with a string, on a Value as declared
ValueSetFromString ==
  /\ ~IsNil(units)
  /\ units.str = <<>>
  /\ \E str \in CssStrings : units' = [units EXCEPT !.v = SetFromString(@, str), !.str = str]
  /\ UNCHANGED <<ly, up, pc, prev, made, drawn, signal>>

\* Value.ToDots: the Value is resolved against the Context, once
ValueToDots ==
  /\ ~IsNil(units)
  /\ IsNil(units.last)
  /\ LET r == ToDots(units.uc, units.v.Val, units.v.Un)
     IN  units' = [units EXCEPT !.uc = r.uc, !.v.Dots = r.res,
                                !.last = [DPI |-> units.uc.DPI, val |-> units.v.Val,
                                          un |-> units.v.Un, res |-> r.res]]
  /\ UNCHANGED <<ly, up, pc, prev, made, drawn, signal>>

\* --------------------------------------------------- actions of a Signal
\* the nodes that send and receive, and the receiver functions
Nodes == {"a", "b", "s"}

RecvFuncs == {"f", "g"}

\* Signal.Connect
SignalConnect ==
  /\ ~IsNil(signal)
  /\ Len(signal.Cons) < MaxCons
  /\ \E recv \in Nodes, fun \in RecvFuncs :
       signal' = [signal EXCEPT !.Cons = Connect(@, recv, fun), !.Emitted = NilPtr]
  /\ UNCHANGED <<ly, up, pc, prev, made, drawn, units>>

\* a node is destroyed
Destroy ==
  /\ ~IsNil(signal)
  /\ \E k \in Nodes \ signal.Destroyed :
       signal' = [signal EXCEPT !.Destroyed = @ \cup {k}, !.Emitted = NilPtr]
  /\ UNCHANGED <<ly, up, pc, prev, made, drawn, units>>

\* Signal.Emit, from any sender or nil
SignalEmit ==
  /\ ~IsNil(signal)
  /\ \E sender \in {[Nm |-> k] : k \in Nodes} \cup {NilPtr} :
       LET r == Emit(signal.Cons, signal.Destroyed, sender)
       IN  signal' = [signal EXCEPT !.Cons = r.Cons,
                                    !.Emitted = [Sender |-> sender, Before |-> signal.Cons, Calls |-> r.Calls]]
  /\ UNCHANGED <<ly, up, pc, prev, made, drawn, units>>

\* -------------------------------------------------------- initial states
\* a LayoutStyle (with the box model fields of Style that BoxSpace reads)
MkStyle(need, pref, max, al, margin, overflow) ==
  [AlignH |-> al, AlignV |-> al, PosX |-> 0, PosY |-> 0,
   Width |-> pref, Height |-> pref, MaxWidth |-> max, MaxHeight |-> max,
   MinWidth |-> need, MinHeight |-> need,
   Margin |-> margin, Padding |-> 0, BorderWidth |-> 0,
   Overflow |-> overflow, Columns |-> 0, Row |-> 0, Col |-> 0, RowSpan |-> 0, ColSpan |-> 0,
   ScrollBarWidth |-> Dots(ScrollBarWidthPx)]

\* a leaf child as constructed: styled, nothing laid out yet
MkKid(need, pref, max, al) ==
  [Style |-> MkStyle(need, pref, max, al, 0, "OverflowAuto"), LayData |-> ZeroLayData]

\* a Layout as constructed
MkLayout(lay, al, margin, overflow, kids) ==
  [Lay |-> lay, Style |-> MkStyle(0, 0, 0, al, margin, overflow), LayData |-> ZeroLayData,
   Kids |-> kids, ChildSize |-> Vec2DZero, ExtraSize |-> Vec2DZero,
   HasHScroll |-> FALSE, HasVScroll |-> FALSE, HScroll |-> NilPtr, VScroll |-> NilPtr,
   StackTop |-> NilPtr, GridSize |-> Point(0, 0), GridDataRows |-> <<>>, GridDataCols |-> <<>>,
   Panicked |-> FALSE]

\* the parent is a Layout, which allocates (ParentAlloc)
LayoutParent == <<[IsNode2D |-> TRUE, IsLayout |-> TRUE, LayData |-> ZeroLayData]>>

SeqsUpTo(S, n) == UNION {[1..m -> S] : m \in 0..n}

Lens == {Dots(n) : n \in 0..MaxDim}

\* max-width / max-height: stretch (negative), unset (0) or a ceiling
MaxLens == {0 - Dots(1)} \cup Lens

\* children of every size preference, aligned as al
AnyKids(al) == {MkKid(n, p, m, al) : n \in Lens, p \in Lens, m \in MaxLens}

\* children of a fixed size: Need = Pref, no Max
RigidKids == {MkKid(n, n, 0, "AlignLeft") : n \in Lens \ {0}}

\* One measure and arrange pass of a freshly built Row, for every child
\* size preference, alignment, box spacing and allocation.
InitArrange ==
  /\ \E al \in Aligns, margin \in {0, Dots(1)} :
       \E kids \in SeqsUpTo(AnyKids(al), MaxKids) :
         ly = MkLayout("LayoutRow", al, margin, "OverflowAuto", kids)
  /\ up = LayoutParent
  /\ pc = "init"
  /\ prev = NilPtr
  /\ drawn = NilPtr
  /\ units = NilPtr
  /\ signal = NilPtr
  /\ made = [H |-> 0, V |-> 0]

FirstSize2D == pc = "init" /\ Size2D

NextArrange == FirstSize2D \/ ParentAlloc \/ Layout2D

SpecArrange == InitArrange /\ [][NextArrange]_vars

\* Pass after pass on the same Row or Column, nothing changed in between.
\* one child of each kind: stretch without a Pref, stretch, shrinkable,
\* rigid, capped by its Max
SomeKids(al) ==
  {MkKid(0, 0, 0 - Dots(1), al), MkKid(Dots(1), Dots(1), 0 - Dots(1), al),
   MkKid(Dots(1), Dots(MaxDim), 0, al), MkKid(Dots(MaxDim), Dots(MaxDim), 0, al),
   MkKid(0, Dots(MaxDim), Dots(1), al)}

InitTwice ==
  /\ \E lay \in {"LayoutRow", "LayoutCol"}, al \in Aligns, margin \in {0, Dots(1)} :
       \E kids \in SeqsUpTo(SomeKids(al), MaxKids) :
         ly = MkLayout(lay, al, margin, "OverflowAuto", kids)
  /\ up = LayoutParent
  /\ pc = "init"
  /\ prev = NilPtr
  /\ drawn = NilPtr
  /\ units = NilPtr
  /\ signal = NilPtr
  /\ made = [H |-> 0, V |-> 0]

NextTwice == Size2D \/ ParentAlloc \/ Layout2D

SpecTwice == InitTwice /\ [][NextTwice]_vars

\* A Column of fixed-size children through layout passes, with the overflow
\* policy changed, children removed and the scrollbars moved in between.
Init ==
  /\ \E margin \in {0, Dots(1)} :
       \E kids \in SeqsUpTo(RigidKids, MaxKids) :
         ly = MkLayout("LayoutCol", "AlignLeft", margin, "OverflowAuto", kids)
  /\ up = LayoutParent
  /\ pc = "init"
  /\ prev = NilPtr
  /\ drawn = NilPtr
  /\ units = NilPtr
  /\ signal = NilPtr
  /\ made = [H |-> 0, V |-> 0]

Next ==
  \/ Size2D
  \/ ParentAlloc
  \/ Layout2D
  \/ SetOverflow
  \/ DeleteChild
  \/ HSliderValueChanged
  \/ VSliderValueChanged

Spec == Init /\ [][Next]_vars

\* The worked Row under every alignment, with and without box spacing, each
\* child rigid (Need = Pref) or shrinkable (Need 0).
InitRow3 ==
  /\ \E al \in Aligns, margin \in {0, Dots(10)} :
       \E rigid \in [1..Len(ScenarioPrefs) -> BOOLEAN] :
         ly = MkLayout("LayoutRow", al, margin, "OverflowAuto",
                       [i \in 1..Len(ScenarioPrefs) |->
                          MkKid(IF rigid[i] THEN Dots(ScenarioPrefs[i]) ELSE 0,
                                Dots(ScenarioPrefs[i]), 0, al)])
  /\ up = LayoutParent
  /\ pc = "init"
  /\ prev = NilPtr
  /\ drawn = NilPtr
  /\ units = NilPtr
  /\ signal = NilPtr
  /\ made = [H |-> 0, V |-> 0]

NextRow3 == Size2D \/ RowAlloc \/ Layout2D

SpecRow3 == InitRow3 /\ [][NextRow3]_vars

\* Grids of up to MaxGridKids children, with and without a column count; a
\* child has no grid hints, or a column or a row hint with a span that may be
\* below 1; its LayData carries the same span.
MkGridKid(pref, h) ==
  LET k == MkKid(pref, pref, 0, "AlignLeft")
  IN  [k EXCEPT !.Style.Col = h[1], !.Style.Row = h[2], !.Style.ColSpan = h[3], !.Style.RowSpan = h[4],
                !.LayData.GridSpan = Point(h[3], h[4])]

\* (Col, Row, ColSpan, RowSpan)
GridHintSet == {<<1, 0, 1, 0>>, <<1, 0, 0, 0>>, <<0, 1, 0, 0 - 1>>}

GridKids ==
  {MkGridKid(p, <<0, 0, 0, 0>>) : p \in Lens \ {0}} \cup {MkGridKid(Dots(1), h) : h \in GridHintSet}

InitGrid ==
  /\ \E kids \in SeqsUpTo(GridKids, MaxGridKids), columns \in {0, 2} :
       ly = [MkLayout("LayoutGrid", "AlignLeft", 0, "OverflowAuto", kids) EXCEPT !.Style.Columns = columns]
  /\ up = LayoutParent
  /\ pc = "init"
  /\ prev = NilPtr
  /\ drawn = NilPtr
  /\ units = NilPtr
  /\ signal = NilPtr
  /\ made = [H |-> 0, V |-> 0]

NextGrid ==
  \/ CallDefaults
  \/ FirstSize2D
  \/ CallGatherSizesGrid
  \/ ParentAlloc
  \/ Layout2D

SpecGrid == InitGrid /\ [][NextGrid]_vars

\* A Stacked layout of named children: passes, a child picked as the top,
\* children removed, and the render pass.
Named(kids) == [i \in 1..Len(kids) |-> [Nm |-> i, Style |-> kids[i].Style, LayData |-> kids[i].LayData]]

InitStack ==
  /\ \E margin \in {0, Dots(1)} :
       \E kids \in SeqsUpTo(RigidKids, MaxKids) :
         ly = MkLayout("LayoutStacked", "AlignLeft", margin, "OverflowAuto", Named(kids))
  /\ up = LayoutParent
  /\ pc = "init"
  /\ prev = NilPtr
  /\ drawn = NilPtr
  /\ units = NilPtr
  /\ signal = NilPtr
  /\ made = [H |-> 0, V |-> 0]

NextStack ==
  \/ Size2D
  \/ ParentAlloc
  \/ Layout2D
  \/ ShowChildAtIndex
  \/ DeleteChild
  \/ Render2D

SpecStack == InitStack /\ [][NextStack]_vars

\* A Layout under every chain of ancestors: Layouts, other 2D nodes and
\* nodes that are not 2D, sized or not; its parent may or may not give it
\* an allocation before its Layout2D.
SizedLayData == [ZeroLayData EXCEPT !.AllocPos = NewVec2D(Dots(1), Dots(1)),
                                    !.AllocSize = NewVec2D(Dots(MaxAvail), Dots(MaxAvail))]

FlatLayData == [ZeroLayData EXCEPT !.AllocPos = NewVec2D(Dots(1), 0),
                                   !.AllocSize = NewVec2D(0, Dots(1))]

Ancestors ==
  {[IsNode2D |-> FALSE, IsLayout |-> FALSE, LayData |-> ZeroLayData]}
    \cup {[IsNode2D |-> TRUE, IsLayout |-> l, LayData |-> ld] :
            l \in BOOLEAN, ld \in {ZeroLayData, SizedLayData, FlatLayData}}

InitAlloc ==
  /\ \E kids \in SeqsUpTo(RigidKids, 1) :
       ly = MkLayout("LayoutRow", "AlignLeft", 0, "OverflowAuto", kids)
  /\ up \in SeqsUpTo(Ancestors, MaxDepth)
  /\ pc = "init"
  /\ prev = NilPtr
  /\ drawn = NilPtr
  /\ units = NilPtr
  /\ signal = NilPtr
  /\ made = [H |-> 0, V |-> 0]

NextAlloc == Size2D \/ ParentAlloc \/ Layout2D

SpecAlloc == InitAlloc /\ [][NextAlloc]_vars

\* ------------------------------------------------------ unit conversion
\* a Value as declared: var v Value
ZeroValue == [Val |-> RInt(0), Un |-> "Px", Dots |-> RInt(0)]

\* Contexts, initialized or not: any field may still be zero
AnyContext ==
  {[DPI |-> dpi, FontEm |-> em, FontEx |-> ex, FontCh |-> RInt(6), FontRem |-> rem,
    VpW |-> vpw, VpH |-> vph, ElW |-> elw, ElH |-> RInt(0)] :
     dpi \in {RInt(0), RInt(72), RInt(96)}, em \in {RInt(0), RInt(16)}, ex \in {RInt(8)},
     rem \in {RInt(0), RInt(12)}, vpw \in {RInt(0), RInt(1024)},
     vph \in {RInt(0), RInt(600), RInt(2000)}, elw \in {RInt(0), RInt(400)}}

InitUnits ==
  /\ ly = MkLayout("LayoutRow", "AlignLeft", 0, "OverflowAuto", <<>>)
  /\ up = <<>>
  /\ pc = "init"
  /\ prev = NilPtr
  /\ drawn = NilPtr
  /\ made = [H |-> 0, V |-> 0]
  /\ \E uc \in AnyContext : units = [uc |-> uc, v |-> ZeroValue, str |-> <<>>, last |-> NilPtr]
  /\ signal = NilPtr

NextUnits == ContextToDots \/ CallContextDefaults

SpecUnits == InitUnits /\ [][NextUnits]_vars

\* a Value is parsed from a string, then resolved against a Context
InitParse ==
  /\ ly = MkLayout("LayoutRow", "AlignLeft", 0, "OverflowAuto", <<>>)
  /\ up = <<>>
  /\ pc = "init"
  /\ prev = NilPtr
  /\ drawn = NilPtr
  /\ made = [H |-> 0, V |-> 0]
  /\ \E uc \in {c \in AnyContext : c.FontEm = RInt(16) /\ c.FontRem = RInt(12) /\ c.VpW = RInt(0) /\ c.ElW = RInt(0)} :
       units = [uc |-> uc, v |-> ZeroValue, str |-> <<>>, last |-> NilPtr]
  /\ signal = NilPtr

NextParse == ValueSetFromString \/ ValueToDots

SpecParse == InitParse /\ [][NextParse]_vars

\* ---------------------------------------------------------- a Signal
\* a Signal as declared: no connections; no node destroyed
InitSignal ==
  /\ ly = MkLayout("LayoutRow", "AlignLeft", 0, "OverflowAuto", <<>>)
  /\ up = <<>>
  /\ pc = "init"
  /\ prev = NilPtr
  /\ drawn = NilPtr
  /\ made = [H |-> 0, V |-> 0]
  /\ units = NilPtr
  /\ signal = [Cons |-> <<>>, Destroyed |-> {}, Emitted |-> NilPtr]

NextSignal == SignalConnect \/ Destroy \/ SignalEmit

SpecSignal == InitSignal /\ [][NextSignal]_vars

\* ------------------------------------------- UpdateSizes on its own
\* any LayoutData: Need, Pref, Max and a (possibly stale) AllocSize
AnyLayData ==
  {[ZeroLayData EXCEPT !.Size = [Need |-> NewVec2D(n, n2), Pref |-> NewVec2D(p, p2), Max |-> NewVec2D(m, m2)],
                       !.AllocSize = NewVec2D(a, a2)] :
     n \in Lens, p \in Lens, m \in MaxLens, a \in {Dots(k) : k \in 0..MaxAvail},
     n2 \in {0, Dots(MaxDim)}, p2 \in {0}, m2 \in {0, Dots(1)}, a2 \in {0, Dots(MaxAvail)}}

InitSizes ==
  /\ \E ld \in AnyLayData : ly = [MkLayout("LayoutRow", "AlignLeft", 0, "OverflowAuto", <<>>) EXCEPT !.LayData = ld]
  /\ up = <<>>
  /\ pc = "init"
  /\ prev = NilPtr
  /\ drawn = NilPtr
  /\ units = NilPtr
  /\ signal = NilPtr
  /\ made = [H |-> 0, V |-> 0]

DoUpdateSizes ==
  /\ pc = "init"
  /\ ly' = [ly EXCEPT !.LayData = UpdateSizes(ly.LayData)]
  /\ pc' = "updated"
  /\ UNCHANGED <<units, signal, drawn, up, prev, made>>

NextSizes == DoUpdateSizes

SpecSizes == InitSizes /\ [][NextSizes]_vars

\* --------------------------------------------------------------- claims
\* C1: after UpdateSizes, on each axis Need <= Pref, and whenever Max > 0
\* both Need <= Max and Pref <= Max, whatever Need, Pref, Max and AllocSize
\* were before (a stale AllocSize above a positive Max included).
C1_MonotonicClamping ==
  pc = "updated" =>
    \A d \in Dims2D :
      /\ ly.LayData.Size.Need[d] <= ly.LayData.Size.Pref[d]
      /\ ly.LayData.Size.Max[d] > 0 =>
           /\ ly.LayData.Size.Need[d] <= ly.LayData.Size.Max[d]
           /\ ly.LayData.Size.Pref[d] <= ly.LayData.Size.Max[d]

\* C1 witness: UpdateSizes has run on a LayoutData whose AllocSize is above a positive Max
C1_Witness ==
  /\ pc = "updated"
  /\ ly.LayData.Size.Max.X > 0
  /\ ly.LayData.AllocSize.X > ly.LayData.Size.Max.X
  /\ ly.LayData.Size.Need.X = ly.LayData.Size.Max.X

\* C2: after an arrange pass (LayoutAll on the main axis, LayoutSingle on the
\* cross axis) every child whose Max on an axis is positive has an AllocSize
\* on that axis that is not greater than that Max, for every alignment
\* (justify included), allocation and mix of siblings.
C2_MaxIsCeiling ==
  pc = "laidout" =>
    \A i \in 1..Len(ly.Kids) : \A d \in Dims2D :
      ly.Kids[i].LayData.Size.Max[d] > 0 =>
        ~FGt(ly.Kids[i].LayData.AllocSize[d], ly.Kids[i].LayData.Size.Max[d])

\* C3: LayoutAll and LayoutSingle give no child a negative AllocSize, and no
\* child less than its Need: extra is clamped at zero before it is used, so
\* when the Pref total does not fit the children are sized from Need, also
\* when the Need total is more than the space or the space is negative.
C3_NoNegativeSizes ==
  pc = "laidout" =>
    \A i \in 1..Len(ly.Kids) : \A d \in Dims2D :
      /\ ~FLt(ly.Kids[i].LayData.AllocSize[d], 0)
      /\ ~FLt(ly.Kids[i].LayData.AllocSize[d], ly.Kids[i].LayData.Size.Need[d])
      /\ (SumDim(ly, d) /\ ~LayoutAllPlan(ly, d).usePref /\ ~FGt(LayoutAllPlan(ly, d).extra, 0)) =>
           ly.Kids[i].LayData.AllocSize[d] = ly.Kids[i].LayData.Size.Need[d]

\* C3 witness: a Row laid out in a negative available width, its children
\* needing more than that, each child left at its positive Need
C3_Witness ==
  /\ pc = "laidout"
  /\ Len(ly.Kids) = MaxKids
  /\ ly.LayData.AllocSize.X - 2 * BoxSpace(ly.Style) < 0
  /\ ~LayoutAllPlan(ly, "X").usePref
  /\ \A i \in 1..Len(ly.Kids) :
       /\ ly.Kids[i].LayData.Size.Need.X > 0
       /\ ly.Kids[i].LayData.Size.Pref.X > ly.Kids[i].LayData.Size.Need.X
       /\ ly.Kids[i].LayData.AllocSize.X = ly.Kids[i].LayData.Size.Need.X
       /\ ly.Kids[i].Style.AlignV = "AlignJustify"
       /\ ly.Kids[i].LayData.AllocSize.Y = ly.Kids[i].LayData.Size.Need.Y

\* C4: a Row with n children, none stretch-marked, no overflow, the Pref total
\* (box spacing included) fitting in the allocated width: the children's
\* widths, the gaps between them and twice the box spacing add up to the
\* allocated width, for every alignment and every box spacing.
C4_MainAxisConservation ==
  (/\ pc = "laidout"
   /\ ly.Lay = "LayoutRow"
   /\ Len(ly.Kids) > 0
   /\ \A i \in 1..Len(ly.Kids) : ~HasMaxStretch(ly.Kids[i].LayData.Size, "X")
   /\ ~ly.HasHScroll
   /\ SumTo([i \in 1..Len(ly.Kids) |-> ly.Kids[i].LayData.Size.Pref.X], Len(ly.Kids))
        + 2 * BoxSpace(ly.Style) <= ly.LayData.AllocSize.X)
  => LET n == Len(ly.Kids)
         widths == SumTo([i \in 1..n |-> ly.Kids[i].LayData.AllocSize.X], n)
         gaps == SumTo([i \in 1..(n - 1) |->
                          ly.Kids[i + 1].LayData.AllocPos.X
                            - (ly.Kids[i].LayData.AllocPos.X + ly.Kids[i].LayData.AllocSize.X)], n - 1)
     IN  widths + gaps + 2 * BoxSpace(ly.Style) = ly.LayData.AllocSize.X

\* C5: the measure pass then the arrange pass, run again on the same tree in
\* the same allocation with nothing changed in between, give every node the
\* AllocPos and AllocSize the run before gave it.
C5_Idempotence ==
  (pc = "laidout" /\ ~IsNil(prev)) => Geometry(ly) = prev

\* C5 witness: a second run has ended on a tree where the first one stretched
\* a child beyond its Pref, inside a box spacing
C5_Witness ==
  /\ pc = "laidout"
  /\ ~IsNil(prev)
  /\ BoxSpace(ly.Style) > 0
  /\ \E i \in 1..Len(ly.Kids) :
       FGt(prev.kids[i].AllocSize.X, ly.Kids[i].LayData.Size.Pref.X)

\* C6 as stated: a Column whose children's heights sum to H ends the pass
\* with HasVScroll and a vertical scrollbar of Max H when its allocated
\* height is H - 1, and without HasVScroll when it is H or H + 1.
C6_BoundaryAsStated ==
  (pc = "laidout" /\ ly.Lay = "LayoutCol" /\ Len(ly.Kids) > 0) =>
    LET H == SumTo([i \in 1..Len(ly.Kids) |-> ly.Kids[i].LayData.AllocSize.Y], Len(ly.Kids))
        A == ly.LayData.AllocSize.Y
    IN  /\ A = H - Dots(1) => (ly.HasVScroll /\ ~IsNil(ly.VScroll) /\ ly.VScroll.Max = H)
        /\ A \in {H, H + Dots(1)} => ~ly.HasVScroll

\* C6 amended: a Column with children, overflow policy not Hidden and box
\* spacing s, whose children's heights sum to H: if H is more than the
\* allocated height less 2s the pass ends with HasVScroll and a vertical
\* scrollbar of Max s + H, plus the scrollbar width when the horizontal axis
\* scrolls too; otherwise it ends without HasVScroll.
C6_Boundary ==
  (pc = "laidout" /\ ly.Lay = "LayoutCol" /\ Len(ly.Kids) > 0 /\ ly.Style.Overflow # "OverflowHidden") =>
    LET H == SumTo([i \in 1..Len(ly.Kids) |-> ly.Kids[i].LayData.AllocSize.Y], Len(ly.Kids))
        s == BoxSpace(ly.Style)
        A == ly.LayData.AllocSize.Y
    IN  IF H > A - 2 * s
          THEN /\ ly.HasVScroll
               /\ ~IsNil(ly.VScroll)
               /\ ly.VScroll.Max = s + H + (IF ly.HasHScroll THEN ly.Style.ScrollBarWidth ELSE 0)
          ELSE ~ly.HasVScroll

\* C6 witness: two children one dot taller together than the space inside a
\* positive box spacing, the vertical axis scrolling
C6_Witness ==
  /\ pc = "laidout"
  /\ Len(ly.Kids) = MaxKids
  /\ ly.Style.Overflow # "OverflowHidden"
  /\ BoxSpace(ly.Style) > 0
  /\ SumTo([i \in 1..Len(ly.Kids) |-> ly.Kids[i].LayData.AllocSize.Y], Len(ly.Kids))
       = ly.LayData.AllocSize.Y - 2 * BoxSpace(ly.Style) + Dots(1)
  /\ ly.HasVScroll
  /\ ~ly.HasHScroll

\* C7: after a layout pass in which the children's bounding size on an axis
\* is not more than the available size on it, that axis does not scroll: its
\* flag is false and the ExtraSize its scrollbar takes is zero, so it is not
\* rendered, whatever the pass before left and also with no children left.
C7_BackToNoScroll ==
  pc = "laidout" =>
    LET avail == VecSubVal(ly.LayData.AllocSize, BoxSpace(ly.Style))
    IN  /\ ~FGt(ly.ChildSize.X, avail.X) => (~ly.HasHScroll /\ ly.ExtraSize.Y = 0)
        /\ ~FGt(ly.ChildSize.Y, avail.Y) => (~ly.HasVScroll /\ ly.ExtraSize.X = 0)

\* C8: after ManageOverflow on a layout with children: under Hidden neither
\* axis scrolls and ExtraSize is zero, however far the children overflow;
\* under any other policy an axis scrolls exactly when the children's
\* bounding size on it is more than the available size.
C8_HiddenNeverScrolls ==
  (pc = "laidout" /\ Len(ly.Kids) > 0) =>
    LET avail == VecSubVal(ly.LayData.AllocSize, BoxSpace(ly.Style))
    IN  IF ly.Style.Overflow = "OverflowHidden"
          THEN ~ly.HasHScroll /\ ~ly.HasVScroll /\ VecIsZero(ly.ExtraSize)
          ELSE /\ ly.HasHScroll <=> FGt(ly.ChildSize.X, avail.X)
               /\ ly.HasVScroll <=> FGt(ly.ChildSize.Y, avail.Y)

\* C8 witness: a pass under Hidden has ended with the children overflowing
\* on both axes, on a layout that scrolled on both before
C8_Witness ==
  /\ pc = "laidout"
  /\ Len(ly.Kids) > 0
  /\ ly.Style.Overflow = "OverflowHidden"
  /\ FGt(ly.ChildSize.X, ly.LayData.AllocSize.X - BoxSpace(ly.Style))
  /\ FGt(ly.ChildSize.Y, ly.LayData.AllocSize.Y - BoxSpace(ly.Style))
  /\ ~IsNil(ly.HScroll)
  /\ ~IsNil(ly.VScroll)
  /\ ~ly.HasHScroll
  /\ ~ly.HasVScroll

\* C9: an axis that has left Scrolling keeps its scrollbar object,
\* deactivated: AllocPos and AllocSize zero, both bounding boxes empty; and
\* over any sequence of passes at most one scrollbar object is made per axis.
C9_ScrollbarKeptDeactivated ==
  pc = "laidout" =>
    /\ made.H <= 1
    /\ made.V <= 1
    /\ (~ly.HasHScroll /\ ~IsNil(ly.HScroll)) =>
         /\ VecIsZero(ly.HScroll.LayData.AllocPos)
         /\ VecIsZero(ly.HScroll.LayData.AllocSize)
         /\ ly.HScroll.VpBBox = ZR
         /\ ly.HScroll.WinBBox = ZR
    /\ (~ly.HasVScroll /\ ~IsNil(ly.VScroll)) =>
         /\ VecIsZero(ly.VScroll.LayData.AllocPos)
         /\ VecIsZero(ly.VScroll.LayData.AllocSize)
         /\ ly.VScroll.VpBBox = ZR
         /\ ly.VScroll.WinBBox = ZR

\* C10: after a layout pass and through any scrollbar value changes, each
\* child's AllocPos is its AllocPosOrig less the current value of the active
\* scrollbar of each axis, and a value change leaves AllocPosOrig as it was.
C10_ScrollShift ==
  /\ [](pc \in {"laidout", "changed"} =>
          \A i \in 1..Len(ly.Kids) :
            /\ ly.Kids[i].LayData.AllocPos.X = ly.Kids[i].LayData.AllocPosOrig.X
                 - (IF ly.HasHScroll THEN ly.HScroll.Value ELSE 0)
            /\ ly.Kids[i].LayData.AllocPos.Y = ly.Kids[i].LayData.AllocPosOrig.Y
                 - (IF ly.HasVScroll THEN ly.VScroll.Value ELSE 0))
  /\ [][(HSliderValueChanged \/ VSliderValueChanged) =>
          /\ Len(ly'.Kids) = Len(ly.Kids)
          /\ \A i \in 1..Len(ly.Kids) :
               ly'.Kids[i].LayData.AllocPosOrig = ly.Kids[i].LayData.AllocPosOrig]_vars

\* C10 witness: both scrollbars active and moved off zero, a child shifted
\* by both values from where the pass put it
C10_Witness ==
  /\ pc = "changed"
  /\ ly.HasHScroll
  /\ ly.HasVScroll
  /\ ly.HScroll.Value > 0
  /\ ly.VScroll.Value > 0
  /\ \E i \in 1..Len(ly.Kids) :
       /\ ly.Kids[i].LayData.AllocPosOrig.Y > 0
       /\ ly.Kids[i].LayData.AllocPos.X = ly.Kids[i].LayData.AllocPosOrig.X - ly.HScroll.Value
       /\ ly.Kids[i].LayData.AllocPos.Y = ly.Kids[i].LayData.AllocPosOrig.Y - ly.VScroll.Value

\* C11 as stated: after ManageOverflow a scrolling axis has a scrollbar with
\* Min 0, Max the children's bounding size on the axis and thumb size the
\* available size on the axis, also when both axes scroll.
C11_RangeAsStated ==
  (pc = "laidout" /\ Len(ly.Kids) > 0) =>
    LET avail == VecSubVal(ly.LayData.AllocSize, BoxSpace(ly.Style))
    IN  /\ ly.HasHScroll =>
             (ly.HScroll.Min = 0 /\ ly.HScroll.Max = ly.ChildSize.X /\ ly.HScroll.ThumbVal = avail.X)
        /\ ly.HasVScroll =>
             (ly.VScroll.Min = 0 /\ ly.VScroll.Max = ly.ChildSize.Y /\ ly.VScroll.ThumbVal = avail.Y)

\* C11 amended: when ManageOverflow puts an axis in Scrolling, its scrollbar
\* has Min 0, thumb size the allocated size less the box spacing, and Max the
\* children's bounding size on the axis plus ExtraSize on it, which is the
\* scrollbar width when the other axis scrolls too and zero otherwise.
C11_ScrollRange ==
  (pc = "laidout" /\ Len(ly.Kids) > 0) =>
    LET avail == VecSubVal(ly.LayData.AllocSize, BoxSpace(ly.Style))
        sbw == ly.Style.ScrollBarWidth
    IN  /\ ly.HasHScroll =>
             /\ ~IsNil(ly.HScroll)
             /\ ly.HScroll.Min = 0
             /\ ly.HScroll.Max = ly.ChildSize.X + (IF ly.HasVScroll THEN sbw ELSE 0)
             /\ ly.HScroll.ThumbVal = avail.X
        /\ ly.HasVScroll =>
             /\ ~IsNil(ly.VScroll)
             /\ ly.VScroll.Min = 0
             /\ ly.VScroll.Max = ly.ChildSize.Y + (IF ly.HasHScroll THEN sbw ELSE 0)
             /\ ly.VScroll.ThumbVal = avail.Y

\* C11 witness: both axes scrolling inside a positive box spacing
C11_Witness ==
  /\ pc = "laidout"
  /\ Len(ly.Kids) > 0
  /\ BoxSpace(ly.Style) > 0
  /\ ly.HasHScroll
  /\ ly.HasVScroll
  /\ ly.HScroll.Max = ly.ChildSize.X + ly.Style.ScrollBarWidth
  /\ ly.LayData.AllocSize.X > BoxSpace(ly.Style)

C13_AllocFromParentDegrades ==
  [][Layout2D =>
       /\ ~ly'.Panicked
       /\ (VecIsZero(ly.LayData.AllocSize)
             /\ \A i \in 1..Len(up) : VecIsZero(up[i].LayData.AllocSize))
            => VecIsZero(ly'.LayData.AllocSize)
       /\ ~VecIsZero(ly.LayData.AllocSize) =>
            /\ ly'.LayData.AllocSize = ly.LayData.AllocSize
            /\ ly'.LayData.AllocPos = ly.LayData.AllocPos]_vars

\* C14: in a Stacked layout whose StackTop is not one of its children (never
\* set, or set to a child removed since), the render pass renders no child.
C14_InvalidTopRendersNothing ==
  (pc = "rendered" /\ ly.Lay = "LayoutStacked"
     /\ (IsNil(ly.StackTop) \/ \A i \in 1..Len(ly.Kids) : ly.Kids[i].Nm # ly.StackTop.Nm))
  => drawn.kids = <<>>

\* C15: in LayoutAll, when the children's Pref total fits with extra > 0 and
\* some child is stretch-marked (Max < 0), each stretch-marked child gets its
\* Pref plus extra times its Pref over the stretch-marked Prefs' sum, every
\* other child gets its Pref, and so the children together take all the space.
C15_StretchAbsorbsExtra ==
  LET n == Len(ly.Kids)
      pref(i) == ly.Kids[i].LayData.Size.Pref.X
      marked(i) == HasMaxStretch(ly.Kids[i].LayData.Size, "X")
      avail == ly.LayData.AllocSize.X - 2 * BoxSpace(ly.Style)
      extra == avail - SumTo([i \in 1..n |-> pref(i)], n)
      stretchTot == SumTo([i \in 1..n |-> IF marked(i) THEN pref(i) ELSE 0], n)
  IN  (pc = "laidout" /\ ly.Lay = "LayoutRow" /\ extra > 0 /\ \E i \in 1..n : marked(i))
      => /\ \A i \in 1..n :
              ly.Kids[i].LayData.AllocSize.X =
                IF marked(i) THEN FAdd(pref(i), FShare(extra, pref(i), stretchTot)) ELSE pref(i)
         /\ SumTo([i \in 1..n |-> ly.Kids[i].LayData.AllocSize.X], n) = avail

\* C16 as stated: Pref widths 50, 100, 150 in a Row 400 wide, no margin, none
\* stretch-marked, alignment justify: AllocPos.X = [0, 150, 300] and
\* AllocSize.X = [50, 100, 150].
C16_JustifyAsStated ==
  (/\ pc = "laidout"
   /\ ly.Style.AlignH = "AlignJustify"
   /\ BoxSpace(ly.Style) = 0
   /\ ly.LayData.AllocSize.X = Dots(400))
  => /\ [i \in 1..3 |-> ly.Kids[i].LayData.AllocPos.X] = <<0, Dots(150), Dots(300)>>
     /\ [i \in 1..3 |-> ly.Kids[i].LayData.AllocSize.X] = <<Dots(50), Dots(100), Dots(150)>>

\* C16 amended: the same Row gets AllocPos.X = [0, 100, 250] with the widths
\* unchanged; in general, with no box spacing, n > 1 children none of them
\* stretch-marked and the Pref total fitting with extra > 0, justify puts
\* child i at the sum of the Prefs before it plus (i - 1) gaps of extra/(n-1).
C16_JustifyGaps ==
  LET n == Len(ly.Kids)
      prefs == [i \in 1..n |-> ly.Kids[i].LayData.Size.Pref.X]
      extra == ly.LayData.AllocSize.X - SumTo(prefs, n)
  IN  (/\ pc = "laidout"
       /\ ly.Style.AlignH = "AlignJustify"
       /\ BoxSpace(ly.Style) = 0
       /\ n > 1
       /\ extra > 0)
      => /\ \A i \in 1..n :
              /\ ly.Kids[i].LayData.AllocSize.X = prefs[i]
              /\ (n - 1) * ly.Kids[i].LayData.AllocPos.X
                   = (n - 1) * SumTo(prefs, i - 1) + (i - 1) * extra
         /\ ly.LayData.AllocSize.X = Dots(400) =>
              [i \in 1..n |-> ly.Kids[i].LayData.AllocPos.X] = <<0, Dots(100), Dots(250)>>

\* C16 witness: the worked Row laid out justified in 400 dots, its last child
\* ending at the Row's edge
C16_Witness ==
  /\ pc = "laidout"
  /\ ly.Style.AlignH = "AlignJustify"
  /\ BoxSpace(ly.Style) = 0
  /\ ly.LayData.AllocSize.X = Dots(400)
  /\ ly.Kids[3].LayData.AllocPos.X + ly.Kids[3].LayData.AllocSize.X = Dots(400)
  /\ ly.Kids[2].LayData.AllocPos.X = Dots(100)

\* C17: a Row aligned at the start, no child stretch-marked, the Pref total
\* with the box spacing fitting in the allocated width: child i gets its Pref
\* as width and sits at the box spacing plus the Prefs before it; Prefs 50,
\* 100, 150 in 400 with no margin sit at [0, 50, 150].
C17_StartAligned ==
  LET n == Len(ly.Kids)
      prefs == [i \in 1..n |-> ly.Kids[i].LayData.Size.Pref.X]
      spc == BoxSpace(ly.Style)
  IN  (/\ pc = "laidout"
       /\ IsAlignStart(ly.Style.AlignH)
       /\ \A i \in 1..n : ~HasMaxStretch(ly.Kids[i].LayData.Size, "X")
       /\ SumTo(prefs, n) + 2 * spc <= ly.LayData.AllocSize.X)
      => /\ \A i \in 1..n :
              /\ ly.Kids[i].LayData.AllocSize.X = prefs[i]
              /\ ly.Kids[i].LayData.AllocPos.X = spc + SumTo(prefs, i - 1)
         /\ (spc = 0 /\ ly.LayData.AllocSize.X = Dots(400)) =>
              [i \in 1..n |-> ly.Kids[i].LayData.AllocPos.X] = <<0, Dots(50), Dots(150)>>

C19_CellAllocation ==
  LET n == Len(ly.Kids)
      cols == ly.GridSize.X
      inCol(c) == {k \in 0..(n - 1) : k % cols = c}
      inRow(r) == {k \in 0..(n - 1) : k \div cols = r}
      widest(c) == CHOOSE v \in {ly.Kids[k + 1].LayData.Size.Pref.X : k \in inCol(c)} :
                     \A k \in inCol(c) : ly.Kids[k + 1].LayData.Size.Pref.X <= v
      tallest(r) == CHOOSE v \in {ly.Kids[k + 1].LayData.Size.Pref.Y : k \in inRow(r)} :
                      \A k \in inRow(r) : ly.Kids[k + 1].LayData.Size.Pref.Y <= v
  IN  (/\ pc = "laidout"
       /\ ly.Lay = "LayoutGrid"
       /\ n >= 1
       /\ ly.Style.Columns = 0
       /\ \A i \in 1..n : ly.Kids[i].Style.Col = 0 /\ ly.Kids[i].Style.Row = 0)
      => /\ cols > 0
         /\ \A k \in 0..(n - 1) :
              /\ ly.Kids[k + 1].LayData.AllocSize.X = widest(k % cols)
              /\ ly.Kids[k + 1].LayData.AllocSize.Y = tallest(k \div cols)

\* C20: a grid span below 1 is clamped to 1 wherever it is used: Defaults
\* leaves GridSpan >= 1 on both axes, and the grid size the measure resolves
\* is the one it resolves when every span below 1 is replaced by 1.
C20_SpanClamped ==
  /\ [][CallDefaults => \A i \in 1..Len(ly'.Kids) :
                          /\ ly'.Kids[i].LayData.GridSpan.X >= 1
                          /\ ly'.Kids[i].LayData.GridSpan.Y >= 1]_vars
  /\ [](LET clamp(v) == IF v < 1 THEN 1 ELSE v
            clamped == [ly EXCEPT !.Kids = [i \in 1..Len(ly.Kids) |->
                          [ly.Kids[i] EXCEPT !.Style.ColSpan = clamp(@), !.Style.RowSpan = clamp(@)]]]
        IN  (ly.Lay = "LayoutGrid" /\ ly.GridSize.X > 0) => ly.GridSize = GridSizeOf(clamped))

\* C21: a conversion on a Context with DPI == 0 first substitutes the
\* defaults (DPI 96, font em 12pt, viewport 800x600) and returns, for every
\* unit, the finite result a freshly defaulted Context gives: val times
\* 1 px, 3/5 dp, 800 pct, 16 rem, 16 em, 8 ex, 8 ch, 800 vw, 600 vh, 600 vmin,
\* 800 vmax, 4800/127 cm, 480/127 mm, 120/127 q, 96 in, 16 pc, 4/3 pt, 1 dot.
C21_ZeroDPIDefaults ==
  LET l == units.last
      factor == [Px |-> RInt(1), Dp |-> Rat(3, 5), Pct |-> RInt(800), Rem |-> RInt(16), Em |-> RInt(16),
                 Ex |-> RInt(8), Ch |-> RInt(8), Vw |-> RInt(800), Vh |-> RInt(600),
                 Vmin |-> RInt(600), Vmax |-> RInt(800), Cm |-> Rat(4800, 127), Mm |-> Rat(480, 127),
                 Q |-> Rat(120, 127), In |-> RInt(96), Pc |-> RInt(16), Pt |-> Rat(4, 3), Dot |-> RInt(1)]
  IN  (~IsNil(units) /\ ~IsNil(l) /\ l.DPI = RInt(0))
      => /\ IsFinite(l.res)
         /\ l.res = Rat(l.val.n * factor[l.un].n, l.val.d * factor[l.un].d)
         /\ units.uc.DPI = RInt(96)
         /\ units.uc.FontEm = RInt(12)
         /\ units.uc.VpW = RInt(800)
         /\ units.uc.VpH = RInt(600)

\* C21 witness: 2 em converted on a Context never initialized, fonts and
\* viewport zero as well
C21_Witness ==
  /\ ~IsNil(units)
  /\ ~IsNil(units.last)
  /\ units.last.DPI = RInt(0)
  /\ units.last.un = "Em"
  /\ units.last.val = RInt(2)
  /\ units.last.res = RInt(32)

\* C22: SetFromString sets the unit to the longest declared unit name that is
\* a suffix of the trimmed, lower-cased string, and to Px when there is none;
\* when the string is digits followed by that unit name or by nothing, the
\* value is the number the digits spell, for strings of every length.
C22_LongestSuffix ==
  LET t == ToLower(TrimSpace(units.str))
      isSuffix(nm) == Len(nm) <= Len(t) /\ SubSeq(t, Len(t) - Len(nm) + 1, Len(t)) = nm
      found == {i \in 1..Len(UnitNames) : isSuffix(UnitNames[i])}
      longest == CHOOSE i \in found : \A j \in found : Len(UnitNames[j]) <= Len(UnitNames[i])
      before == IF found = {} THEN t ELSE SubSeq(t, 1, Len(t) - Len(UnitNames[longest]))
  IN  (~IsNil(units) /\ units.str # <<>>)
      => /\ units.v.Un = IF found = {} THEN "Px" ELSE UnitSeq[longest]
         /\ (Len(before) > 0 /\ \A k \in 1..Len(before) : before[k] \in Digits)
              => units.v.Val = RInt(DigitsVal(before))

\* C23: Emit delivers nothing when the sender is nil or destroyed; otherwise
\* it calls the function of every connection whose receiver is not destroyed
\* exactly once, in connection order, and removes every connection whose
\* receiver is destroyed, the others keeping their order.
C23_EmitDelivery ==
  (~IsNil(signal) /\ ~IsNil(signal.Emitted))
  => LET e == signal.Emitted
         alive(c) == c.Recv \notin signal.Destroyed
         live == SelectSeq(e.Before, alive)
     IN  IF IsNil(e.Sender) \/ e.Sender.Nm \in signal.Destroyed
           THEN e.Calls = <<>> /\ signal.Cons = e.Before
         ELSE e.Calls = live /\ signal.Cons = live

\* C23 witness: three connections, the middle one's receiver destroyed, a
\* live sender: two calls, two connections left
C23_Witness ==
  /\ ~IsNil(signal)
  /\ ~IsNil(signal.Emitted)
  /\ ~IsNil(signal.Emitted.Sender)
  /\ Len(signal.Emitted.Before) = 3
  /\ signal.Emitted.Before[2].Recv \in signal.Destroyed
  /\ Len(signal.Emitted.Calls) = 2
  /\ Len(signal.Cons) = 2

\* ------------------------------------------------------ measuring alone
\* The measure pass of a Row or Column that has a size of its own: a
\* min-width / min-height, a width / height, and no Max or a ceiling.
OwnLens == {0, Dots(MaxDim + 1)}

OwnMaxLens == {0, Dots(1)}

InitGather ==
  /\ \E lay \in {"LayoutRow", "LayoutCol"}, margin \in {0, Dots(1)},
        need \in OwnLens, pref \in OwnLens, max \in OwnMaxLens :
       \E kids \in SeqsUpTo(SomeKids("AlignLeft"), MaxKids) :
         ly = [MkLayout(lay, "AlignLeft", margin, "OverflowAuto", kids)
                 EXCEPT !.Style = MkStyle(need, pref, max, "AlignLeft", margin, "OverflowAuto")]
  /\ up = LayoutParent
  /\ pc = "init"
  /\ prev = NilPtr
  /\ drawn = NilPtr
  /\ units = NilPtr
  /\ signal = NilPtr
  /\ made = [H |-> 0, V |-> 0]

NextGather == FirstSize2D

SpecGather == InitGather /\ [][NextGather]_vars

\* C24 as stated: after GatherSizes on a Row or Column with at least one child
\* and no Max of its own, Need and Pref are the children's sum on the main axis
\* and the children's maximum on the cross axis, plus twice the box spacing.
C24_GatherAsStated ==
  (pc = "sized" /\ Len(ly.Kids) > 0 /\ ly.Style.MaxWidth = 0 /\ ly.Style.MaxHeight = 0) =>
    LET n == Len(ly.Kids)
        needs == [i \in 1..n |-> ly.Kids[i].LayData.Size.Need]
        prefs == [i \in 1..n |-> ly.Kids[i].LayData.Size.Pref]
        spc == BoxSpace(ly.Style)
    IN  \A d \in Dims2D :
          /\ ly.LayData.Size.Need[d] =
               (IF SumDim(ly, d) THEN SumVec(needs, n)[d] ELSE MaxVec(needs, n)[d]) + 2 * spc
          /\ ly.LayData.Size.Pref[d] =
               (IF SumDim(ly, d) THEN SumVec(prefs, n)[d] ELSE MaxVec(prefs, n)[d]) + 2 * spc

\* C24 amended: the children's sum (main axis) or maximum (cross axis) is a
\* floor under the layout's own Need (min size) and Pref (size) from its style:
\* before the final UpdateSizes, Need and Pref are the larger of the two plus
\* twice the box spacing; UpdateSizes then raises Pref to Need and applies a
\* positive Max as a ceiling.
C24_GatherAggregates ==
  (pc = "sized" /\ Len(ly.Kids) > 0) =>
    LET n == Len(ly.Kids)
        needs == [i \in 1..n |-> ly.Kids[i].LayData.Size.Need]
        prefs == [i \in 1..n |-> ly.Kids[i].LayData.Size.Pref]
        spc == BoxSpace(ly.Style)
        own == [Need |-> MinSizeDots(ly.Style), Pref |-> SizeDots(ly.Style), Max |-> MaxSizeDots(ly.Style)]
        agg(vs, d) == IF SumDim(ly, d) THEN SumVec(vs, n)[d] ELSE MaxVec(vs, n)[d]
        larger(a, b) == IF a > b THEN a ELSE b
        ceiling(a, m) == IF m > 0 /\ m < a THEN m ELSE a
    IN  \A d \in Dims2D :
          LET need == larger(own.Need[d], agg(needs, d)) + 2 * spc
              pref == larger(own.Pref[d], agg(prefs, d)) + 2 * spc
          IN  /\ ly.LayData.Size.Need[d] = ceiling(need, own.Max[d])
              /\ ly.LayData.Size.Pref[d] = ceiling(larger(pref, need), own.Max[d])

\* C24 witness: a measured Row whose own min-width exceeds the sum of its
\* children's Needs
C24_Witness ==
  /\ pc = "sized"
  /\ ly.Lay = "LayoutRow"
  /\ Len(ly.Kids) = MaxKids
  /\ ly.Style.MaxWidth = 0
  /\ ly.Style.Margin > 0
  /\ ly.Style.MinWidth > ly.Kids[1].LayData.Size.Need.X + ly.Kids[2].LayData.Size.Need.X
  /\ ly.Kids[1].LayData.Size.Need.X > 0

\* ------------------------------------------------------- the cross axis
\* One pass of a Row whose children's heights include a Pref a fraction of a
\* dot above a whole number of dots, so that a Pref can exceed the available
\* height by less than the tenth of a dot LayoutSingleImpl tolerates.
CrossPrefs == {0, Dots(1), Dots(1) + (Tenth \div 2), Dots(2)}

CrossKids(al) ==
  {[MkKid(0, Dots(1), m, al) EXCEPT !.Style.MinHeight = n, !.Style.Height = p] :
     n \in {0, Dots(1)}, p \in CrossPrefs, m \in {0 - Dots(1), 0}}

InitCross ==
  /\ \E al \in Aligns, margin \in {0, Dots(1)} :
       \E kids \in SeqsUpTo(CrossKids(al), MaxKids) :
         ly = MkLayout("LayoutRow", al, margin, "OverflowAuto", kids)
  /\ up = LayoutParent
  /\ pc = "init"
  /\ prev = NilPtr
  /\ drawn = NilPtr
  /\ units = NilPtr
  /\ signal = NilPtr
  /\ made = [H |-> 0, V |-> 0]

SpecCross == InitCross /\ [][NextArrange]_vars

\* C25 as stated: on the cross axis of a laid-out Row each child's base size is
\* Pref if Pref <= avail, else Need; it fills avail when using Pref with
\* Max < 0 or when using Need with extra > 0; otherwise it keeps the base size
\* at spc (start), spc + extra/2 (center) or spc + extra (end), and justify
\* fills avail; and whenever Need <= avail, spc <= pos and pos + size <= spc + avail.
C25_CrossAsStated ==
  (pc = "laidout") =>
    \A i \in 1..Len(ly.Kids) :
      LET k == ly.Kids[i]
          spc == BoxSpace(ly.Style)
          avail == ly.LayData.AllocSize.Y - 2 * spc
          need == k.LayData.Size.Need.Y
          pref == k.LayData.Size.Pref.Y
          al == k.Style.AlignV
          fits == pref <= avail
          base == IF fits THEN pref ELSE need
          extra == IF avail > base THEN avail - base ELSE 0
          fills == extra > 0 /\ ((fits /\ k.LayData.Size.Max.Y < 0) \/ ~fits \/ al = "AlignJustify")
          pos == k.LayData.AllocPos.Y
          size == k.LayData.AllocSize.Y
      IN  /\ size = IF fills THEN avail ELSE base
          /\ pos = IF fills \/ extra = 0 THEN spc
                   ELSE IF IsAlignMiddle(al) THEN spc + (extra \div 2)
                   ELSE IF IsAlignEnd(al) THEN spc + extra
                   ELSE spc
          /\ (need <= avail => (spc <= pos /\ pos + size <= spc + avail))

\* C25 amended: the same, where Pref fits when it exceeds avail by no more than
\* a tenth of a dot, and whenever Need <= avail the child starts at or after spc
\* and ends no more than a tenth of a dot beyond spc + avail (at or before it
\* when Pref <= avail).
C25_CrossAxis ==
  (pc = "laidout") =>
    \A i \in 1..Len(ly.Kids) :
      LET k == ly.Kids[i]
          spc == BoxSpace(ly.Style)
          avail == ly.LayData.AllocSize.Y - 2 * spc
          need == k.LayData.Size.Need.Y
          pref == k.LayData.Size.Pref.Y
          al == k.Style.AlignV
          fits == pref <= avail + Tenth
          base == IF fits THEN pref ELSE need
          extra == IF avail > base THEN avail - base ELSE 0
          fills == extra > 0 /\ ((fits /\ k.LayData.Size.Max.Y < 0) \/ ~fits \/ al = "AlignJustify")
          pos == k.LayData.AllocPos.Y
          size == k.LayData.AllocSize.Y
      IN  /\ size = IF fills THEN avail ELSE base
          /\ pos = IF fills \/ extra = 0 THEN spc
                   ELSE IF IsAlignMiddle(al) THEN spc + (extra \div 2)
                   ELSE IF IsAlignEnd(al) THEN spc + extra
                   ELSE spc
          /\ (need <= avail => (spc <= pos /\ pos + size <= spc + avail + Tenth))
          /\ ((need <= avail /\ pref <= avail) => pos + size <= spc + avail)

\* C25 witness: a laid-out Row with box spacing holding a centered child that
\* keeps its Pref height with room to spare, beside a child whose Pref height
\* is a fraction of a dot more than the available height
C25_Witness ==
  /\ pc = "laidout"
  /\ Len(ly.Kids) = MaxKids
  /\ BoxSpace(ly.Style) > 0
  /\ LET avail == ly.LayData.AllocSize.Y - 2 * BoxSpace(ly.Style)
     IN  /\ IsAlignMiddle(ly.Kids[1].Style.AlignV)
         /\ ly.Kids[1].LayData.Size.Max.Y = 0
         /\ ly.Kids[1].LayData.AllocSize.Y = ly.Kids[1].LayData.Size.Pref.Y
         /\ ly.Kids[1].LayData.AllocPos.Y > BoxSpace(ly.Style)
         /\ ly.Kids[2].LayData.Size.Pref.Y > avail
         /\ ly.Kids[2].LayData.Size.Pref.Y <= avail + Tenth
         /\ ly.Kids[2].LayData.Size.Need.Y < avail

\* C26: in a laid-out Row, whenever LayoutAll shares extra among children
\* (stretchMax or stretchNeed) the divisor, the sum of the sharing children's
\* Prefs, is greater than zero, and every child's AllocSize and AllocPos on
\* the main axis is a finite number.
C26_DivisorPositive ==
  (pc = "laidout" /\ ly.Lay = "LayoutRow" /\ Len(ly.Kids) > 0) =>
    LET pl == LayoutAllPlan(ly, "X")
    IN  /\ (pl.stretchMax \/ pl.stretchNeed) => pl.stretchTot > 0
        /\ \A i \in 1..Len(ly.Kids) :
             /\ ~IsNaN(ly.Kids[i].LayData.AllocSize.X)
             /\ ~IsNaN(ly.Kids[i].LayData.AllocPos.X)

\* C27: GatherSizesGrid never indexes GridDataRows or GridDataCols out of
\* bounds: called on a measured grid of n >= 1 children, for every column
\* count >= 0 and every Row / Col hint and span, it ends without a panic.
C27_GridIndexInBounds ==
  [][(CallGatherSizesGrid /\ Len(ly.Kids) >= 1 /\ ly.Style.Columns >= 0) => ~ly'.Panicked]_vars

\* C28: across layout passes that leave an axis Scrolling, that axis's
\* scrollbar's SliderSig holds exactly one connection, to the owning Layout,
\* so a slider value change calls exactly one receiver function (one move and
\* re-render).
C28_SingleConnection ==
  /\ ly.HasHScroll =>
       /\ ~IsNil(ly.HScroll)
       /\ Len(ly.HScroll.SliderSig) = 1
       /\ Emit(ly.HScroll.SliderSig, {}, [Nm |-> "Lay_HScroll"]).Calls = <<[Recv |-> "ly", Func |-> "SetHScroll.func1"]>>
  /\ ly.HasVScroll =>
       /\ ~IsNil(ly.VScroll)
       /\ Len(ly.VScroll.SliderSig) = 1
       /\ Emit(ly.VScroll.SliderSig, {}, [Nm |-> "Lay_VScroll"]).Calls = <<[Recv |-> "ly", Func |-> "SetVScroll.func1"]>>

\* C28 witness: a second pass in a row has left the vertical axis Scrolling,
\* on a scrollbar made once whose value a slider change had moved
C28_Witness ==
  /\ pc = "laidout"
  /\ ~IsNil(prev)
  /\ ly.HasVScroll
  /\ made.V = 1
  /\ ly.VScroll.Value > 0
  /\ Len(ly.VScroll.SliderSig) = 1

\* C29: after GatherSizes and LayoutAll on a Row, whenever the baseline chosen
\* (the layout's Pref, or its Need when Pref does not fit) fits in avail, the
\* far edge of the last child, AllocPos + AllocSize on the main axis, is a
\* number no greater than box spacing + avail.
C29_NoOverflowFromExtra ==
  (pc = "laidout" /\ ly.Lay = "LayoutRow" /\ Len(ly.Kids) > 0) =>
    LET spc == BoxSpace(ly.Style)
        avail == ly.LayData.AllocSize.X - 2 * spc
        last == ly.Kids[Len(ly.Kids)].LayData
        edge == FAdd(last.AllocPos.X, last.AllocSize.X)
        baseline == IF ly.LayData.Size.Pref.X <= avail THEN ly.LayData.Size.Pref.X
                    ELSE ly.LayData.Size.Need.X
    IN  baseline <= avail => (~IsNaN(edge) /\ edge <= spc + avail)

\* C30: after LayoutAll on a Row the children lie end to end in order without
\* overlap: the first child's AllocPos is at least the box spacing and each
\* next child starts at or after the previous child's AllocPos + AllocSize,
\* exactly there unless the alignment is justify and no child stretches.
C30_EndToEnd ==
  (pc = "laidout" /\ ly.Lay = "LayoutRow" /\ Len(ly.Kids) > 0) =>
    LET n == Len(ly.Kids)
        pos(i) == ly.Kids[i].LayData.AllocPos.X
        size(i) == ly.Kids[i].LayData.AllocSize.X
        pl == LayoutAllPlan(ly, "X")
        gaps == ly.Style.AlignH = "AlignJustify" /\ ~pl.stretchMax /\ ~pl.stretchNeed
    IN  /\ ~IsNaN(pos(1)) /\ pos(1) >= BoxSpace(ly.Style)
        /\ \A i \in 1..(n - 1) :
             /\ ~IsNaN(pos(i + 1)) /\ ~IsNaN(size(i))
             /\ pos(i + 1) >= pos(i) + size(i)
             /\ ~gaps => pos(i + 1) = pos(i) + size(i)

====
